---- MODULE Spec2Model ----
(***************************************************************************)
(* A model of claudine-proxy: the streaming chat-completions handler and   *)
(* its Anthropic -> OpenAI event translator, the system-prompt injector,   *)
(* the impersonation transport with its body pipe, and the persistent      *)
(* token source.                                                           *)
(*                                                                         *)
(* Every subsystem has its own specification (SpecStream, SpecInject, ...) *)
(* over its own variables; the variables of the other subsystems are held  *)
(* at their idle values.                                                   *)
(***************************************************************************)
EXTENDS Integers, Sequences, FiniteSets, TLC

VARIABLES
    \* ---- streaming handler (sse.go streamResponse + ProcessStreamingRequest)
    hPc,          \* position of the handler / iterator
    ctxErr,       \* ctx.Err() != nil : the request context is cancelled
    frames,       \* SSE data frames written to the client so far, in order
    pending,      \* the (chunk, err) pair the iterator has yielded
    sc,           \* StreamingResponseContext
    upstream,     \* the upstream stream: "none", "open", "closed"
    proto,        \* observer: protocol conformance of the events consumed so far
    outcome,      \* observer: how streamResponse returned
    \* ---- system-prompt injector (impersonation.go injectSystemPrompt)
    inDoc,        \* the JSON document the decoder reads
    inPos,        \* members of the top-level object read so far
    inPc,         \* position in injectSystemPrompt
    inOut,        \* what the encoder has been given so far
    inFound,      \* foundSystem
    inErr,        \* the error injectSystemPrompt returned
    inDefect,     \* where the bytes of the document stop being valid JSON
    inWerr,       \* the error the goroutine closed the pipe with
    inFirst,      \* the output of a first application, once it is given back as input
    \* ---- ImpersonationTransport.RoundTrip, headers and body policy
    rtReq,        \* the request given to RoundTrip
    rtNew,        \* newReq, the clone being prepared
    rtPc,         \* position in RoundTrip
    rtSent,       \* the request handed to base.RoundTrip
    rtProducer,   \* the goroutine running injectSystemPrompt has been started
    \* ---- the body pipe of RoundTrip: producer goroutine and consumer
    ppPc,         \* position of the producer goroutine
    ppLeft,       \* pieces of output the injector has still to write
    ppData,       \* bytes of the write in progress that the reader has not taken
    ppRerr,       \* the read side is closed (pr.Close)
    ppWerr,       \* the error the write side was closed with (pw.CloseWithError)
    ppErr,        \* the error injectSystemPrompt returned
    ppBody,       \* the inbound body req.Body: "open" or "closed"
    ppCon,        \* position of the consumer of newReq.Body
    ppWhy,        \* why the consumer closed newReq.Body
    \* ---- PersistentTokenSource
    tkBuilt,      \* NewPersistentTokenSource has returned a source
    tkPc,         \* position of each caller of Token()
    tkLoc,        \* the locals of each caller: ts, initialToken, freshToken, last, err
    tkOnce,       \* the sync.OnceValues cell: "new", "running", "done"
    tkOnceVal,    \* the pair the cell caches
    tkStore,      \* the refresh token the token store holds
    tkLast,       \* lastRefreshToken
    tkMu,         \* the holder of writeMu, 0 when free
    tkInner,      \* the inner token source: its kind and the refresh tokens it issued
    tkCount,      \* calls of tokenStore.Read, factory, tokenStore.Write and Token
    \* ---- tokenstore.FileStore
    fsFile,       \* the token file: exists, content (a sequence of characters), mode
    fsTemp,       \* the temp file of the Write in progress
    fsPc,         \* position in FileStore.Write
    fsTok,        \* the token given to Write
    fsCtx,        \* the context of the Write is cancelled
    fsRes,        \* what Write returned: Null, "ok" or "error"
    fsBefore,     \* observer: the token file when the Write started
    fsRdPc,       \* position in FileStore.Read
    fsRdRes,      \* what Read returned
    fsWrites,     \* Write calls started
    \* ---- tokensource.TokenSource (the refreshing source built by NewTokenSource)
    rsPc,         \* position of each caller of TokenSource.Token
    rsMu,         \* the holder of the reuse source's mutex, 0 when free
    rsTok,        \* the cached oauth2 token: access token number and validity
    rsEpoch,      \* observer: how many times the cached token has expired
    rsLog,        \* observer: the refresh requests sent: epoch and outcome of each
    rsLoc,        \* observer: per caller, the epoch at call start and the result
    \* ---- the transport chain built by proxy.New: oauth2.Transport, ImpersonationTransport
    chRoute,      \* the route that handed the request to the chain
    chIn,         \* the headers of the request entering the chain
    chPc,         \* position in the chain
    chTok,        \* what the token source returned: access token number, or an error
    chReq,        \* the headers of the request as the chain has rewritten them so far
    chSent,       \* the headers that reached the upstream transport, or NoHeaders
    \* ---- the reverse proxy of the /messages route (httputil.ReverseProxy with Rewrite)
    rpUp,         \* the configured upstream URL: scheme, host, path
    rpIn,         \* the inbound request: Host, URL host, path, query, forwarding headers
    rpPc,         \* position in the reverse proxy
    rpOut,        \* pr.Out, the outbound request
    \* ---- message conversion (messages.go, hoistSystemPrompts)
    cvIn,         \* the messages of the chat-completion request
    cvPc,         \* position in the conversion
    cvTransformed, \* what fromChatCompletionRequestMessages returned
    cvErr,        \* the conversion returned an error
    cvSystem,     \* systemPrompts, the first result of hoistSystemPrompts
    cvMessages,   \* messages, the second result of hoistSystemPrompts
    \* ---- Recovery middleware (middleware.go)
    rcPc,         \* position of the request in Recovery: handler, deferred, done
    rcStatus,     \* status code of the response header, 0 while none is written
    rcBody,       \* body chunks written to the response so far
    rcPanic,      \* the value of the panic that is unwinding, Null if none
    rcEscaped,    \* a panic left the middleware
    rcAtPanic,    \* rcStatus when the handler panicked, -1 if it has not
    \* ---- middleware composition (applyMiddlewares, New)
    mwRoute,      \* the route the request was matched to
    mwChain,      \* the composed handler of the route, outermost first
    mwDepth,      \* how many elements of mwChain the request has entered
    mwTrace,      \* the middlewares and handler in the order they were entered
    mwStatus,     \* status code of the response header, 0 while none is written
    mwBody,       \* body chunks written to the response so far
    mwPanic,      \* the value of the panic that is unwinding, Null if none
    mwLogged,     \* what Logging recorded for the request
    mwPc,         \* entering, handler, unwinding, done
    \* ---- chat-completions handler (handler ServeHTTP, json.go)
    ccReq,        \* the request: body decodable, stream flag, model, messages, upstream outcome
    ccPc,         \* decode, write, stream, streaming, done
    ccCancelled,  \* the request context is cancelled
    ccResp,       \* the response: status (0 while no header is written), content type, body
    \* ---- application construction (app.New, Config.Validate, newTokenSource)
    apCfg,        \* the configuration: auth method, storage, storage settings, base URL
    apEnv,        \* the environment variable named by env_key is set
    apPc,         \* validate, store, source, proxy, done
    apErr,        \* the error New returned, Null while it has returned none
    apSource,     \* the token source New built: kind of factory, kind of store
    \* ---- application lifecycle (App.Start, Proxy.Start, Proxy.Shutdown)
    stPc,         \* running, shutdown, draining, returning, done
    stCtx,        \* the application context is cancelled
    stErrCh,      \* the error channel of Proxy.Start: empty, err, or closed
    stTimeout,    \* cfg.Shutdown.Timeout, in ticks
    stInflight,   \* requests in flight
    stElapsed,    \* ticks since Proxy.Shutdown was called
    stDeadline,   \* the deadline Proxy.Shutdown was called with, 0 before the call
    stCalls,      \* calls of Proxy.Shutdown
    stRuntimeErr, \* g.Wait() returned an error
    stShutdownErr, \* Proxy.Shutdown returned an error
    stClosed,     \* server.Close() was called
    stKilled,     \* requests in flight when server.Close() was called
    stResult,     \* what Start returned: Null, "nil" or "error"
    \* ---- event translation (the iterator of ProcessStreamingRequest)
    trEvents,     \* the upstream events the iterator has taken so far, in order
    trCtx,        \* streamingContext
    trOut,        \* the chunks yielded so far, each with the position of its event
    trPc,         \* open, ended, failed
    \* ---- SSEWriter
    swKind,       \* the method called: data, raw, comment
    swIn,         \* its argument, a string as a sequence of characters
    swOut,        \* the bytes the call has written to the ResponseWriter
    swPc,         \* idle, marshal, prefix, body, terminator, flush, done
    swRes,        \* the result of the call: ok or error
    swCalls,      \* calls started
    swNil,        \* calls that returned nil
    swFlushes,    \* calls of flusher.Flush()
    \* ---- buildGenerationParams
    gpReq,        \* the request: tool_choice, parallel_tool_calls, web_search_options
    gpEnv,        \* CLAUDINE_ENABLE_WEB_SEARCH is "true"
    gpParams,     \* the parameters returned
    gpPc          \* idle, ready, built

streamVars == <<hPc, ctxErr, frames, pending, sc, upstream, proto, outcome>>

injVars == <<inDoc, inPos, inPc, inOut, inFound, inErr, inDefect, inWerr, inFirst>>

rtVars == <<rtReq, rtNew, rtPc, rtSent, rtProducer>>

pipeVars == <<ppPc, ppLeft, ppData, ppRerr, ppWerr, ppErr, ppBody, ppCon, ppWhy>>

tokVars == <<tkBuilt, tkPc, tkLoc, tkOnce, tkOnceVal, tkStore, tkLast, tkMu, tkInner, tkCount>>

fsVars == <<fsFile, fsTemp, fsPc, fsTok, fsCtx, fsRes, fsBefore, fsRdPc, fsRdRes, fsWrites>>

rsVars == <<rsPc, rsMu, rsTok, rsEpoch, rsLog, rsLoc>>

chVars == <<chRoute, chIn, chPc, chTok, chReq, chSent>>

rpVars == <<rpUp, rpIn, rpPc, rpOut>>

cvVars == <<cvIn, cvPc, cvTransformed, cvErr, cvSystem, cvMessages>>

rcVars == <<rcPc, rcStatus, rcBody, rcPanic, rcEscaped, rcAtPanic>>

mwVars == <<mwRoute, mwChain, mwDepth, mwTrace, mwStatus, mwBody, mwPanic, mwLogged, mwPc>>

ccVars == <<ccReq, ccPc, ccCancelled, ccResp>>

apVars == <<apCfg, apEnv, apPc, apErr, apSource>>

stVars == <<stPc, stCtx, stErrCh, stTimeout, stInflight, stElapsed, stDeadline, stCalls, stRuntimeErr, stShutdownErr, stClosed, stKilled, stResult>>

trVars == <<trEvents, trCtx, trOut, trPc>>

swVars == <<swKind, swIn, swOut, swPc, swRes, swCalls, swNil, swFlushes>>

gpVars == <<gpReq, gpEnv, gpParams, gpPc>>

vars == <<streamVars, injVars, rtVars, pipeVars, tokVars, fsVars, rsVars, chVars, rpVars, cvVars, rcVars, mwVars, ccVars, apVars, stVars, trVars, swVars, gpVars>>

\* the variables of the other subsystems, which an action of one subsystem leaves alone
notStream == <<injVars, rtVars, pipeVars, tokVars, fsVars, rsVars, chVars, rpVars, cvVars, rcVars, mwVars, ccVars, apVars, stVars, trVars, swVars, gpVars>>
notInj == <<streamVars, rtVars, pipeVars, tokVars, fsVars, rsVars, chVars, rpVars, cvVars, rcVars, mwVars, ccVars, apVars, stVars, trVars, swVars, gpVars>>
notRt == <<streamVars, injVars, pipeVars, tokVars, fsVars, rsVars, chVars, rpVars, cvVars, rcVars, mwVars, ccVars, apVars, stVars, trVars, swVars, gpVars>>
notPipe == <<streamVars, injVars, rtVars, tokVars, fsVars, rsVars, chVars, rpVars, cvVars, rcVars, mwVars, ccVars, apVars, stVars, trVars, swVars, gpVars>>
notTok == <<streamVars, injVars, rtVars, pipeVars, fsVars, rsVars, chVars, rpVars, cvVars, rcVars, mwVars, ccVars, apVars, stVars, trVars, swVars, gpVars>>
notFs == <<streamVars, injVars, rtVars, pipeVars, tokVars, rsVars, chVars, rpVars, cvVars, rcVars, mwVars, ccVars, apVars, stVars, trVars, swVars, gpVars>>
notRs == <<streamVars, injVars, rtVars, pipeVars, tokVars, fsVars, chVars, rpVars, cvVars, rcVars, mwVars, ccVars, apVars, stVars, trVars, swVars, gpVars>>
notCh == <<streamVars, injVars, rtVars, pipeVars, tokVars, fsVars, rsVars, rpVars, cvVars, rcVars, mwVars, ccVars, apVars, stVars, trVars, swVars, gpVars>>
notRp == <<streamVars, injVars, rtVars, pipeVars, tokVars, fsVars, rsVars, chVars, cvVars, rcVars, mwVars, ccVars, apVars, stVars, trVars, swVars, gpVars>>
notCv == <<streamVars, injVars, rtVars, pipeVars, tokVars, fsVars, rsVars, chVars, rpVars, rcVars, mwVars, ccVars, apVars, stVars, trVars, swVars, gpVars>>
notRc == <<streamVars, injVars, rtVars, pipeVars, tokVars, fsVars, rsVars, chVars, rpVars, cvVars, mwVars, ccVars, apVars, stVars, trVars, swVars, gpVars>>
notMw == <<streamVars, injVars, rtVars, pipeVars, tokVars, fsVars, rsVars, chVars, rpVars, cvVars, rcVars, ccVars, apVars, stVars, trVars, swVars, gpVars>>
notCc == <<streamVars, injVars, rtVars, pipeVars, tokVars, fsVars, rsVars, chVars, rpVars, cvVars, rcVars, mwVars, apVars, stVars, trVars, swVars, gpVars>>
notAp == <<streamVars, injVars, rtVars, pipeVars, tokVars, fsVars, rsVars, chVars, rpVars, cvVars, rcVars, mwVars, ccVars, stVars, trVars, swVars, gpVars>>
notSt == <<streamVars, injVars, rtVars, pipeVars, tokVars, fsVars, rsVars, chVars, rpVars, cvVars, rcVars, mwVars, ccVars, apVars, trVars, swVars, gpVars>>
notTr == <<streamVars, injVars, rtVars, pipeVars, tokVars, fsVars, rsVars, chVars, rpVars, cvVars, rcVars, mwVars, ccVars, apVars, stVars, swVars, gpVars>>
notSw == <<streamVars, injVars, rtVars, pipeVars, tokVars, fsVars, rsVars, chVars, rpVars, cvVars, rcVars, mwVars, ccVars, apVars, stVars, trVars, gpVars>>
notGp == <<streamVars, injVars, rtVars, pipeVars, tokVars, fsVars, rsVars, chVars, rpVars, cvVars, rcVars, mwVars, ccVars, apVars, stVars, trVars, swVars>>

(***************************************************************************)
(* Bounds of the model.                                                    *)
(***************************************************************************)
MaxFrames == 4      \* the upstream delivers events while fewer chunks were yielded
MaxBlockIdx == 1    \* Anthropic content block indices are 0..MaxBlockIdx
MaxToolCalls == 2   \* tool_use blocks started in one response
MaxMembers == 3     \* members of the top-level object given to the injector
MaxSystemLen == 2   \* elements of the system array given to the injector
MaxPieces == 3      \* pieces the injector writes to the pipe
MaxWriteLen == 2    \* bytes in one write to the pipe
NumCallers == 2     \* goroutines calling Token() on one PersistentTokenSource
MaxCalls == 3       \* Token() calls started in one run
MaxRotations == 2   \* refresh tokens the inner source issues after the initial one
MaxReads == 2       \* tokenStore.Read calls in one run
MaxTokenLen == 2    \* characters of a token given to FileStore.Write
MaxFileWrites == 1  \* FileStore.Write calls in one run
MaxRefreshReqs == 3 \* refresh requests sent to the token endpoint in one run
MaxEpochs == 2      \* times the cached access token expires in one run
MaxAccess == 2      \* access tokens the token source can hold
MaxMessages == 5    \* messages in one chat-completion request
MaxChunks == 3      \* body chunks a handler writes before it returns or panics
MaxInflight == 2    \* requests in flight at the same time
MaxTimeout == 2     \* the shutdown timeout, in ticks
MaxEvents == 3      \* upstream events of one response
MaxRawLen == 3      \* characters of a string given to the SSEWriter
MaxSseCalls == 2    \* SSEWriter calls in one run

Null == "<null>"

(***************************************************************************)
(* OpenAI chunks (newStreamChunk).  A chunk carries a delta (role,         *)
(* content, tool_calls[0]) and a finish_reason; absent members are Null.   *)
(***************************************************************************)
NoTool == [index |-> -1, id |-> Null, name |-> Null, arguments |-> Null]

newStreamChunk(role, content, tool, finishReason) ==
    [role |-> role, content |-> content, tool |-> tool, finish |-> finishReason]

NoChunk == newStreamChunk(Null, Null, NoTool, Null)

\* the frames of the response
ChunkFrame(c) == [type |-> "chunk", chunk |-> c, data |-> Null]
ErrorFrame    == [type |-> "error", chunk |-> NoChunk, data |-> Null]
RawFrame(s)   == [type |-> "raw", chunk |-> NoChunk, data |-> s]
DoneFrame     == RawFrame("[DONE]")

(***************************************************************************)
(* The upstream events (anthropic.MessageStreamEventUnion).  accErr is the *)
(* result of the SDK's Message.Accumulate on the event.                    *)
(***************************************************************************)
BlockIdx == 0..MaxBlockIdx
Texts == {"", "Hi"}
Urls == {"", "u1", "u2"}
StopReasons == {"end_turn", "tool_use"}
ToolIds == {"t1"}
ToolNames == {"get_time"}

SearchResults == {[url |-> "u1", enc |-> "e1"], [url |-> "", enc |-> "e2"]}

MessageStartEvents ==
    [type : {"message_start"}, accErr : BOOLEAN]

ContentBlockStartEvents ==
    [type : {"content_block_start"}, block : {"tool_use"}, index : BlockIdx,
     id : ToolIds, name : ToolNames]
    \cup [type : {"content_block_start"},
          block : {"text", "server_tool_use", "web_search_tool_result", "thinking"},
          index : {0}, id : {Null}, name : {Null}]

ContentBlockDeltaEvents ==
    [type : {"content_block_delta"}, delta : {"text_delta"}, index : {0}, text : Texts]
    \cup [type : {"content_block_delta"}, delta : {"input_json_delta"}, index : BlockIdx,
          text : {"{}"}]
    \cup [type : {"content_block_delta"}, delta : {"citations_delta"}, index : {0},
          text : Urls]
    \cup [type : {"content_block_delta"},
          delta : {"thinking_delta", "signature_delta", "citations_other"},
          index : {0}, text : {Null}]

MessageDeltaEvents ==
    [type : {"message_delta"}, stop : StopReasons, accErr : BOOLEAN]

OtherEvents ==
    [type : {"content_block_stop", "message_stop", "ping"}]

(***************************************************************************)
(* StreamingResponseContext as ProcessStreamingRequest creates it.         *)
(***************************************************************************)
NewStreamingContext ==
    [NextToolCallIndex     |-> 0,
     AnthropicToolIndex    |-> <<>>,   \* map: Anthropic block index -> ToolIndexMapping
     WebSearchResults      |-> {},     \* map as a set of (enc, url) results
     CitationURLToNumber   |-> <<>>,   \* map: url -> citation number
     NextCitationNumber    |-> 1,
     JustFinishedWebSearch |-> FALSE,
     StopReason            |-> Null]

\* m[k] = v added to the map m
MapPut(m, k, v) == [x \in (DOMAIN m) \cup {k} |-> IF x = k THEN v ELSE m[x]]

Result(chunk, ctx, err) == [chunk |-> chunk, sc |-> ctx, err |-> err]

\* finish_reason of a stop_reason
toFinishReasonStreaming(stop) ==
    CASE stop = "end_turn"      -> "stop"
      [] stop = "max_tokens"    -> "length"
      [] stop = "stop_sequence" -> "stop"
      [] stop = "tool_use"      -> "tool_calls"
      [] stop = "refusal"       -> "content_filter"
      [] OTHER                  -> "stop"

(***************************************************************************)
(* transformStreamEvent, one operator per case of its type switch.  Each   *)
(* yields Result(chunk, context after the event, error).                   *)
(***************************************************************************)

\* case anthropic.MessageStartEvent: accumulate, emit the role chunk
onMessageStart(ctx, e) ==
    IF e.accErr
    THEN Result(NoChunk, ctx, TRUE)
    ELSE Result(newStreamChunk("assistant", Null, NoTool, Null), ctx, FALSE)

\* a variant that takes the OpenAI index from the Anthropic block index
onToolUseStartByBlockIndex(ctx, e) ==
    LET openaiIdx == e.index
        mapping   == [ID |-> e.id, Name |-> e.name, OpenAIToolCallIdx |-> openaiIdx]
        ctx2      == [ctx EXCEPT
                        !.AnthropicToolIndex = MapPut(@, e.index, mapping),
                        !.NextToolCallIndex = @ + 1]
    IN  Result(newStreamChunk(Null, Null,
                   [index |-> openaiIdx, id |-> e.id, name |-> e.name, arguments |-> ""],
                   Null),
               ctx2, FALSE)

\* ContentBlockStartEvent, Type == "tool_use": assign the next OpenAI index,
\* remember the mapping, emit the initial tool-call chunk
onToolUseStart(ctx, e) ==
    LET openaiIdx == ctx.NextToolCallIndex
        mapping   == [ID |-> e.id, Name |-> e.name, OpenAIToolCallIdx |-> openaiIdx]
        ctx2      == [ctx EXCEPT
                        !.AnthropicToolIndex = MapPut(@, e.index, mapping),
                        !.NextToolCallIndex = @ + 1]
    IN  Result(newStreamChunk(Null, Null,
                   [index |-> openaiIdx, id |-> e.id, name |-> e.name, arguments |-> ""],
                   Null),
               ctx2, FALSE)

\* ContentBlockStartEvent, Type == "web_search_tool_result": store the urls,
\* set JustFinishedWebSearch, no output
onWebSearchResult(ctx, e) ==
    Result(NoChunk,
           [ctx EXCEPT
              !.WebSearchResults =
                  @ \cup {r \in SearchResults : r.url # "" /\ r.enc # ""},
              !.JustFinishedWebSearch = TRUE],
           FALSE)

\* case anthropic.ContentBlockStartEvent
onContentBlockStart(ctx, e) ==
    CASE e.block = "text"                   -> Result(NoChunk, ctx, FALSE)
      [] e.block = "tool_use"               -> onToolUseStart(ctx, e)
      [] e.block = "server_tool_use"        -> Result(NoChunk, ctx, FALSE)
      [] e.block = "web_search_tool_result" -> onWebSearchResult(ctx, e)
      [] OTHER                              -> Result(NoChunk, ctx, FALSE)

\* a variant that prepends the separator to every text
onTextDeltaPrefixAlways(ctx, e) ==
    IF e.text = ""
    THEN Result(NoChunk, ctx, FALSE)
    ELSE Result(newStreamChunk(Null, "\n\n" \o e.text, NoTool, Null),
                [ctx EXCEPT !.JustFinishedWebSearch = FALSE], FALSE)

\* a variant that prepends the separator and leaves the flag set
onTextDeltaKeepFlag(ctx, e) ==
    IF e.text = ""
    THEN Result(NoChunk, ctx, FALSE)
    ELSE IF ctx.JustFinishedWebSearch
         THEN Result(newStreamChunk(Null, "\n\n" \o e.text, NoTool, Null), ctx, FALSE)
         ELSE Result(newStreamChunk(Null, e.text, NoTool, Null), ctx, FALSE)

\* ContentBlockDeltaEvent, anthropic.TextDelta
onTextDelta(ctx, e) ==
    IF e.text = ""
    THEN Result(NoChunk, ctx, FALSE)
    ELSE IF ctx.JustFinishedWebSearch
         THEN Result(newStreamChunk(Null, "\n\n" \o e.text, NoTool, Null),
                     [ctx EXCEPT !.JustFinishedWebSearch = FALSE], FALSE)
         ELSE Result(newStreamChunk(Null, e.text, NoTool, Null), ctx, FALSE)

\* a variant that skips the lookup and takes the Anthropic block index as the
\* OpenAI index
onInputJSONDeltaByBlockIndex(ctx, e) ==
    Result(newStreamChunk(Null, Null,
               [index     |-> e.index,
                id        |-> Null,
                name      |-> Null,
                arguments |-> e.text],
               Null),
           ctx, FALSE)

\* ContentBlockDeltaEvent, anthropic.InputJSONDelta
onInputJSONDelta(ctx, e) ==
    IF e.index \notin DOMAIN ctx.AnthropicToolIndex
    THEN Result(NoChunk, ctx, FALSE)
    ELSE Result(newStreamChunk(Null, Null,
                    [index     |-> ctx.AnthropicToolIndex[e.index].OpenAIToolCallIdx,
                     id        |-> Null,
                     name      |-> Null,
                     arguments |-> e.text],
                    Null),
                ctx, FALSE)

\* a variant that takes a new number for every citation
onWebSearchCitationFreshNumber(ctx, e) ==
    LET url == e.text IN
    IF url = ""
    THEN Result(NoChunk, ctx, FALSE)
    ELSE LET num  == ctx.NextCitationNumber
             ctx2 == [ctx EXCEPT
                        !.CitationURLToNumber = MapPut(@, url, num),
                        !.NextCitationNumber = @ + 1]
         IN  Result(newStreamChunk(Null, "[[" \o ToString(num) \o "]](" \o url \o ") ", NoTool, Null),
                    ctx2, FALSE)

\* ContentBlockDeltaEvent, anthropic.CitationsDelta of a web search result
onWebSearchCitation(ctx, e) ==
    LET url == e.text IN
    IF url = ""
    THEN Result(NoChunk, ctx, FALSE)
    ELSE LET exists == url \in DOMAIN ctx.CitationURLToNumber
             num    == IF exists THEN ctx.CitationURLToNumber[url]
                                 ELSE ctx.NextCitationNumber
             ctx2   == IF exists THEN ctx
                       ELSE [ctx EXCEPT
                               !.CitationURLToNumber = MapPut(@, url, num),
                               !.NextCitationNumber = @ + 1]
         IN  Result(newStreamChunk(Null, "[[" \o ToString(num) \o "]](" \o url \o ") ", NoTool, Null),
                    ctx2, FALSE)

\* case anthropic.ContentBlockDeltaEvent
onContentBlockDelta(ctx, e) ==
    CASE e.delta = "text_delta"       -> onTextDelta(ctx, e)
      [] e.delta = "input_json_delta" -> onInputJSONDelta(ctx, e)
      [] e.delta = "citations_delta"  -> onWebSearchCitation(ctx, e)
      [] OTHER                        -> Result(NoChunk, ctx, FALSE)

\* a variant that emits the final chunk without a finish_reason
onMessageDeltaNoFinish(ctx, e) ==
    IF e.accErr
    THEN Result(NoChunk, ctx, TRUE)
    ELSE Result(NoChunk, [ctx EXCEPT !.StopReason = e.stop], FALSE)

\* case anthropic.MessageDeltaEvent: accumulate, emit the final chunk
onMessageDelta(ctx, e) ==
    IF e.accErr
    THEN Result(NoChunk, ctx, TRUE)
    ELSE LET ctx2 == [ctx EXCEPT !.StopReason = e.stop]
         IN  Result(newStreamChunk(Null, Null, NoTool,
                                   toFinishReasonStreaming(ctx2.StopReason)),
                    ctx2, FALSE)

transformStreamEvent(ctx, e) ==
    CASE e.type = "message_start"       -> onMessageStart(ctx, e)
      [] e.type = "content_block_start" -> onContentBlockStart(ctx, e)
      [] e.type = "content_block_delta" -> onContentBlockDelta(ctx, e)
      [] e.type = "content_block_stop"  -> Result(NoChunk, ctx, FALSE)
      [] e.type = "message_delta"       -> onMessageDelta(ctx, e)
      [] e.type = "message_stop"        -> Result(NoChunk, ctx, FALSE)
      [] OTHER                          -> Result(NoChunk, ctx, FALSE)

(***************************************************************************)
(* Observer of the upstream protocol: "init" before any event,             *)
(* "open" after a leading message_start, "finished" after the one          *)
(* message_delta that follows the content blocks, "bad" for every other    *)
(* order of events (no message_start first, a second message_start, a      *)
(* content event or a second message_delta after message_delta).           *)
(***************************************************************************)
ProtoStep(p, e) ==
    CASE e.type = "message_start" -> IF p = "init" THEN "open" ELSE "bad"
      [] e.type = "message_delta" -> IF p = "open" THEN "finished" ELSE "bad"
      [] e.type \in {"content_block_start", "content_block_delta", "content_block_stop"} ->
             IF p = "open" THEN "open" ELSE "bad"
      [] OTHER -> p

(***************************************************************************)
(* The streaming handler: streamResponse ranging over the iterator of      *)
(* ProcessStreamingRequest.                                                *)
(*   "start"   streamResponse is entered                                   *)
(*   "next"    the iterator calls stream.Next()                            *)
(*   "check"   the iterator has yielded; the loop body tests ctx.Err()     *)
(*   "write"   the loop body writes the chunk or the error frame           *)
(*   "marker"  the loop has ended; the handler writes [DONE]               *)
(*   "returned"                                                            *)
(***************************************************************************)
NoPending == [chunk |-> NoChunk, err |-> FALSE]

StreamIdle ==
    /\ hPc = "start"
    /\ ctxErr = FALSE
    /\ frames = <<>>
    /\ pending = NoPending
    /\ sc = NewStreamingContext
    /\ upstream = "none"
    /\ proto = "init"
    /\ outcome = Null

Return(how) ==
    /\ hPc' = "returned"
    /\ outcome' = how

\* the iterator function returns: its deferred stream.Close() runs
IteratorExit == upstream' = "closed"

\* streamResponse up to the range loop: ctx.Err(), ProcessStreamingRequest, NewSSEWriter
StreamBegin(validOk, callOk, flusherOk) ==
    /\ hPc = "start"
    /\ UNCHANGED <<ctxErr, frames, pending, sc, proto>>
    /\ IF ctxErr
       THEN Return("cancelled") /\ UNCHANGED upstream
       ELSE IF ~validOk \/ ~callOk
            THEN Return("json_error") /\ UNCHANGED upstream
            ELSE /\ upstream' = "open"
                 /\ IF flusherOk
                    THEN hPc' = "next" /\ UNCHANGED outcome
                    ELSE Return("json_error")
    /\ UNCHANGED notStream

IsToolUseStart(e) ==
    IF e.type = "content_block_start" THEN e.block = "tool_use" ELSE FALSE

\* for stream.Next() { event := stream.Current(); transformStreamEvent(...) }
OnEvent(e) ==
    /\ hPc = "next"
    /\ Len(frames) < MaxFrames
    /\ IF IsToolUseStart(e) THEN sc.NextToolCallIndex < MaxToolCalls ELSE TRUE
    /\ LET r == transformStreamEvent(sc, e) IN
         /\ sc' = r.sc
         /\ proto' = ProtoStep(proto, e)
         /\ IF r.err
            THEN pending' = [chunk |-> NoChunk, err |-> TRUE] /\ hPc' = "check"
            ELSE IF r.chunk = NoChunk
                 THEN UNCHANGED <<pending, hPc>>
                 ELSE pending' = [chunk |-> r.chunk, err |-> FALSE] /\ hPc' = "check"
    /\ UNCHANGED <<ctxErr, frames, upstream, outcome>>
    /\ UNCHANGED notStream

OnMessageStart == \E e \in MessageStartEvents : OnEvent(e)
OnContentBlockStart == \E e \in ContentBlockStartEvents : OnEvent(e)
OnContentBlockDelta == \E e \in ContentBlockDeltaEvents : OnEvent(e)
OnMessageDelta == \E e \in MessageDeltaEvents : OnEvent(e)
OnOtherEvent == \E e \in OtherEvents : OnEvent(e)

\* stream.Next() is false and stream.Err() is nil: the iterator returns
StreamEnd ==
    /\ hPc = "next"
    /\ hPc' = "marker"
    /\ IteratorExit
    /\ UNCHANGED <<ctxErr, frames, pending, sc, proto, outcome>>
    /\ UNCHANGED notStream

\* stream.Next() is false and stream.Err() is an error: yield(nil, err)
StreamFail ==
    /\ hPc = "next"
    /\ pending' = [chunk |-> NoChunk, err |-> TRUE]
    /\ hPc' = "check"
    /\ UNCHANGED <<ctxErr, frames, sc, upstream, proto, outcome>>
    /\ UNCHANGED notStream

\* the loop body's first statement: if ctx.Err() != nil { return }
HandlerCheck ==
    /\ hPc = "check"
    /\ IF ctxErr
       THEN Return("cancelled") /\ IteratorExit
       ELSE hPc' = "write" /\ UNCHANGED <<upstream, outcome>>
    /\ UNCHANGED <<ctxErr, frames, pending, sc, proto>>
    /\ UNCHANGED notStream

\* a variant that goes on to the [DONE] marker after the error frame
HandlerWriteErrorThenDone(writeOk) ==
    /\ hPc = "write"
    /\ pending.err
    /\ frames' = IF writeOk THEN frames \o <<ErrorFrame, DoneFrame>> ELSE frames
    /\ Return(IF writeOk THEN "error_frame" ELSE "write_failed")
    /\ IteratorExit
    /\ UNCHANGED <<ctxErr, pending, sc, proto>>
    /\ UNCHANGED notStream

\* sse.WriteData(errorResponse); return
HandlerWriteError(writeOk) ==
    /\ hPc = "write"
    /\ pending.err
    /\ frames' = IF writeOk THEN Append(frames, ErrorFrame) ELSE frames
    /\ Return(IF writeOk THEN "error_frame" ELSE "write_failed")
    /\ IteratorExit
    /\ UNCHANGED <<ctxErr, pending, sc, proto>>
    /\ UNCHANGED notStream

\* sse.WriteData(chunk); on failure return, else the loop goes on
HandlerWriteChunk(writeOk) ==
    /\ hPc = "write"
    /\ ~pending.err
    /\ IF writeOk
       THEN /\ frames' = Append(frames, ChunkFrame(pending.chunk))
            /\ hPc' = "next"
            /\ UNCHANGED <<upstream, outcome>>
       ELSE /\ Return("write_failed")
            /\ IteratorExit
            /\ UNCHANGED frames
    /\ UNCHANGED <<ctxErr, pending, sc, proto>>
    /\ UNCHANGED notStream

\* sse.WriteRaw("[DONE]")
HandlerDone(writeOk) ==
    /\ hPc = "marker"
    /\ frames' = IF writeOk THEN Append(frames, DoneFrame) ELSE frames
    /\ Return(IF writeOk THEN "completed" ELSE "write_failed")
    /\ UNCHANGED <<ctxErr, pending, sc, upstream, proto>>
    /\ UNCHANGED notStream

\* the client disconnects: the request context is cancelled
Cancel ==
    /\ hPc # "returned"
    /\ ~ctxErr
    /\ ctxErr' = TRUE
    /\ UNCHANGED <<hPc, frames, pending, sc, upstream, proto, outcome>>
    /\ UNCHANGED notStream

StreamNext ==
    \/ \E v, c, f \in BOOLEAN : StreamBegin(v, c, f)
    \/ OnMessageStart
    \/ OnContentBlockStart
    \/ OnContentBlockDelta
    \/ OnMessageDelta
    \/ OnOtherEvent
    \/ StreamEnd
    \/ StreamFail
    \/ HandlerCheck
    \/ \E ok \in BOOLEAN : HandlerWriteError(ok)
    \/ \E ok \in BOOLEAN : HandlerWriteChunk(ok)
    \/ \E ok \in BOOLEAN : HandlerDone(ok)
    \/ Cancel

(***************************************************************************)
(* Properties of the streaming handler.                                    *)
(***************************************************************************)
IsChunk(f) == f.type = "chunk"
IsRoleChunk(f) == IsChunk(f) /\ f.chunk.role = "assistant" /\ f.chunk.finish = Null
IsFinishChunk(f) == IsChunk(f) /\ f.chunk.finish # Null /\ f.chunk.role = Null
IsContentChunk(f) ==
    /\ IsChunk(f)
    /\ f.chunk.role = Null
    /\ f.chunk.finish = Null
    /\ f.chunk.content # Null \/ f.chunk.tool # NoTool
IsToolInit(f) == IsChunk(f) /\ f.chunk.tool.id # Null

\* role chunk, content/tool-call chunks, finish chunk, [DONE]
WellShaped(fs) ==
    /\ Len(fs) >= 3
    /\ IsRoleChunk(fs[1])
    /\ \A i \in 2..(Len(fs) - 2) : IsContentChunk(fs[i])
    /\ IsFinishChunk(fs[Len(fs) - 1])
    /\ fs[Len(fs)] = DoneFrame

Count(fs, f) == Cardinality({i \in 1..Len(fs) : fs[i] = f})

\* C1 as stated: whatever events the upstream sent, a stream consumed to its
\* end without error is written as role chunk, content chunks, finish chunk, [DONE].
C1_AnySequenceWellShaped ==
    outcome = "completed" => WellShaped(frames)

\* C1 (amended): when the events consumed follow the message protocol (a leading
\* message_start, content block events, then exactly one message_delta) and the
\* stream is consumed to its end without error, the frames written are exactly one
\* role chunk first, then content/tool-call chunks, then exactly one chunk with a
\* non-null finish_reason, then [DONE] as the final frame.
C1_ProtocolStreamWellShaped ==
    (outcome = "completed" /\ proto = "finished") => WellShaped(frames)

C1_Witness ==
    /\ outcome = "completed"
    /\ proto = "finished"
    /\ Len(frames) >= 5
    /\ \E i \in 1..Len(frames) : IsToolInit(frames[i])

\* the upstream has failed (a transform error or stream.Err()) and the handler returned
FailedAndReturned == hPc = "returned" /\ pending.err

\* C2 as stated: after an upstream failure the response always ends with exactly
\* one error frame and holds no [DONE] (runs in which the write of the error frame
\* itself fails are left aside).
C2_AlwaysOneErrorFrame ==
    (FailedAndReturned /\ outcome # "write_failed") =>
        /\ Len(frames) >= 1
        /\ frames[Len(frames)] = ErrorFrame
        /\ Count(frames, ErrorFrame) = 1
        /\ Count(frames, DoneFrame) = 0

\* C2 (amended): after an upstream failure the handler never writes [DONE] and no
\* chunk after the failure; it writes exactly one error frame, as the last frame,
\* when the request context is not cancelled at the loop's check and the write
\* succeeds, and no error frame at all otherwise.
C2_ErrorFrameUnlessCancelled ==
    /\ \A i \in 1..(Len(frames) - 1) : frames[i] # ErrorFrame
    /\ pending.err => Count(frames, DoneFrame) = 0
    /\ FailedAndReturned =>
         /\ outcome \in {"error_frame", "cancelled", "write_failed"}
         /\ outcome = "cancelled" => ctxErr
         /\ IF outcome = "error_frame"
            THEN /\ Len(frames) >= 1
                 /\ frames[Len(frames)] = ErrorFrame
                 /\ Count(frames, ErrorFrame) = 1
            ELSE Count(frames, ErrorFrame) = 0

C2_Witness ==
    /\ FailedAndReturned
    /\ outcome = "error_frame"
    /\ Len(frames) >= 3
    /\ IsContentChunk(frames[2])

ToolInits == SelectSeq(frames, IsToolInit)

\* C3: the tool-call indices of the initial tool-call chunks (those with id and
\* name) of one response are 0, 1, ..., k in emission order, each used once,
\* whatever Anthropic block indices the tool_use blocks have.
C3_ToolIndicesContiguous ==
    \A i \in 1..Len(ToolInits) : ToolInits[i].chunk.tool.index = i - 1

\* two tool_use blocks whose Anthropic indices are in the reverse order (block 1
\* first, then block 0), with a text chunk written between their initial chunks
C3_Witness ==
    /\ Len(ToolInits) = 2
    /\ DOMAIN sc.AnthropicToolIndex = {0, 1}
    /\ sc.AnthropicToolIndex[1].OpenAIToolCallIdx = 0
    /\ sc.AnthropicToolIndex[0].OpenAIToolCallIdx = 1
    /\ \E i, j, k \in 1..Len(frames) :
         /\ i < j /\ j < k
         /\ IsToolInit(frames[i])
         /\ frames[j].chunk.content = "Hi"
         /\ IsToolInit(frames[k])

(***************************************************************************)
(* JSON values as the injector sees them.  An object keeps its members in  *)
(* document order; s holds the literal of a string or a number.            *)
(***************************************************************************)
JVal(k, str, items, members) == [k |-> k, s |-> str, items |-> items, members |-> members]
JStr(str) == JVal("str", str, <<>>, <<>>)
JNum(str) == JVal("num", str, <<>>, <<>>)
JBool(str) == JVal("bool", str, <<>>, <<>>)
JNull == JVal("null", "null", <<>>, <<>>)
JArr(items) == JVal("arr", "", items, <<>>)
JObj(members) == JVal("obj", "", <<>>, members)
Member(key, val) == [key |-> key, val |-> val]

Keys(o) == {o.members[i].key : i \in 1..Len(o.members)}
HasKey(o, key) == key \in Keys(o)
\* the value of member key (the last one of that name)
Get(o, key) ==
    LET i == CHOOSE j \in 1..Len(o.members) :
                 /\ o.members[j].key = key
                 /\ \A l \in (j + 1)..Len(o.members) : o.members[l].key # key
    IN  o.members[i].val

claudeCodeSystemPrompt == "You are Claude Code, Anthropic's official CLI for Claude."

\* mustMarshal(map[string]string{"type": "text", "text": claudeCodeSystemPrompt}):
\* encoding/json writes map keys sorted
systemPromptElement ==
    JObj(<<Member("text", JStr(claudeCodeSystemPrompt)), Member("type", JStr("text"))>>)
systemPromptArray == JArr(<<systemPromptElement>>)

(***************************************************************************)
(* ensureSystemPrompt.                                                     *)
(***************************************************************************)
\* json.Unmarshal(systemVal, &systemArray) with systemArray []json.RawMessage:
\* an array decodes to its elements, null to the nil slice, anything else fails
UnmarshalRawArray(v) ==
    CASE v.k = "arr"  -> [ok |-> TRUE, elems |-> v.items]
      [] v.k = "null" -> [ok |-> TRUE, elems |-> <<>>]
      [] OTHER        -> [ok |-> FALSE, elems |-> <<>>]

\* json.Unmarshal(elem, &firstElem) with firstElem map[string]string: succeeds for
\* null and for an object all of whose values are strings or null; a number,
\* boolean, array or object value is an UnmarshalTypeError
UnmarshalStringMapOk(elem) ==
    \/ elem.k = "null"
    \/ /\ elem.k = "obj"
       /\ \A i \in 1..Len(elem.members) : elem.members[i].val.k \in {"str", "null"}

\* firstElem[key] after a successful decode: "" for a missing key and for null
StringMapGet(elem, key) ==
    IF elem.k = "obj" /\ HasKey(elem, key) /\ Get(elem, key).k = "str"
    THEN Get(elem, key).s
    ELSE ""

\* the check of the first element: err == nil && type == "text" && text == prompt
HasPromptFirst(elems) ==
    /\ UnmarshalStringMapOk(elems[1])
    /\ StringMapGet(elems[1], "type") = "text"
    /\ StringMapGet(elems[1], "text") = claudeCodeSystemPrompt

\* a variant that appends the prompt element after the original elements
ensureSystemPromptAppend(systemVal) ==
    LET a == UnmarshalRawArray(systemVal) IN
    IF ~a.ok \/ Len(a.elems) = 0 THEN systemPromptArray
    ELSE IF HasPromptFirst(a.elems) THEN systemVal
    ELSE JArr(a.elems \o <<systemPromptElement>>)

\* a variant of ensureSystemPrompt without the test of the first element
ensureSystemPromptAlwaysPrepend(systemVal) ==
    LET a == UnmarshalRawArray(systemVal) IN
    IF ~a.ok THEN systemPromptArray
    ELSE IF Len(a.elems) = 0 THEN systemPromptArray
    ELSE JArr(<<systemPromptElement>> \o a.elems)

\* the value ensureSystemPrompt writes to the encoder for systemVal
ensureSystemPrompt(systemVal) ==
    LET a == UnmarshalRawArray(systemVal) IN
    IF ~a.ok THEN systemPromptArray
    ELSE IF Len(a.elems) = 0 THEN systemPromptArray
    ELSE IF HasPromptFirst(a.elems) THEN systemVal
    ELSE JArr(<<systemPromptElement>> \o a.elems)

(***************************************************************************)
(* The documents given to the injector: valid JSON, object member names    *)
(* unique (jsontext rejects duplicate names).                              *)
(***************************************************************************)
PromptTypeFirst ==
    JObj(<<Member("type", JStr("text")), Member("text", JStr(claudeCodeSystemPrompt))>>)
PromptWithNote ==
    JObj(<<Member("type", JStr("text")), Member("text", JStr(claudeCodeSystemPrompt)),
           Member("note", JStr("x"))>>)
PromptWithCacheControl ==
    JObj(<<Member("type", JStr("text")), Member("text", JStr(claudeCodeSystemPrompt)),
           Member("cache_control", JObj(<<Member("type", JStr("ephemeral"))>>))>>)
HelpfulElement ==
    JObj(<<Member("type", JStr("text")), Member("text", JStr("You are a helpful assistant."))>>)

SystemElements ==
    {systemPromptElement, PromptTypeFirst, PromptWithNote, PromptWithCacheControl,
     HelpfulElement, JStr("plain")}

SystemArrays ==
    UNION {[1..n -> SystemElements] : n \in 0..MaxSystemLen}

SystemValues ==
    {JArr(a) : a \in SystemArrays} \cup {JStr("not an array"), JNull, JObj(<<>>)}

TopKeys == {"model", "messages", "system", "config"}

ValueOf(key, systemVal) ==
    CASE key = "system"   -> systemVal
      [] key = "model"    -> JStr("claude-3")
      [] key = "messages" ->
             JArr(<<JObj(<<Member("role", JStr("user")), Member("content", JStr("Hi"))>>)>>)
      [] OTHER            -> JObj(<<Member("system", JArr(<<>>))>>)

KeySeqs ==
    {q \in UNION {[1..n -> TopKeys] : n \in 0..MaxMembers} :
        \A i, j \in 1..Len(q) : i # j => q[i] # q[j]}

ObjectDocs ==
    {JObj([i \in 1..Len(q) |-> Member(q[i], ValueOf(q[i], sv))]) :
        q \in KeySeqs, sv \in SystemValues}

NonObjectDocs ==
    {JStr("hello"), JNum("42"), JBool("true"), JNull,
     JArr(<<>>), JArr(<<JNum("1"), JNum("2")>>)}

InputDocs == ObjectDocs \cup NonObjectDocs

(***************************************************************************)
(* injectSystemPrompt.  inOut is what the encoder was given:               *)
(*   top      the single token written for a non-object document           *)
(*   began    "{" or "[" once BeginObject / BeginArray was written         *)
(*   members  the members written after "{"                                *)
(*   closed   EndObject was written                                        *)
(***************************************************************************)
Incomplete == JVal("incomplete", "", <<>>, <<>>)

EmptyOut == [top |-> Incomplete, began |-> "", members |-> <<>>, closed |-> FALSE]

\* the bytes the decoder is given are those of inDoc up to a defect:
\*   none       the document, complete
\*   bad_key    after at members the name of the next member cannot be read
\*              (the input ends, or what follows is not a name or a closing brace)
\*   bad_value  after at members the name of the next member is read and its
\*              value cannot be (the input ends, or the value is malformed)
\*   trailing   the document, complete, followed by further bytes
Defect(kind, at) == [kind |-> kind, at |-> at]
NoDefect == Defect("none", 0)

DefectsOf(doc) ==
    {NoDefect, Defect("trailing", 0)}
    \cup {Defect("bad_key", k) : k \in 0..Len(doc.members)}
    \cup {Defect("bad_value", k) : k \in 0..(Len(doc.members) - 1)}

\* the decoder fails at the member it is about to read
DefectHere == inDefect.kind \in {"bad_key", "bad_value"} /\ inDefect.at = inPos

InjIdle ==
    /\ inDoc = JNull
    /\ inPos = 0
    /\ inPc = "idle"
    /\ inOut = EmptyOut
    /\ inFound = FALSE
    /\ inErr = FALSE
    /\ inDefect = NoDefect
    /\ inWerr = Null
    /\ inFirst = Incomplete

InjInit ==
    /\ inDoc \in InputDocs
    /\ inPos = 0
    /\ inPc = "start"
    /\ inOut = EmptyOut
    /\ inFound = FALSE
    /\ inErr = FALSE
    /\ inDefect = NoDefect
    /\ inWerr = Null
    /\ inFirst = Incomplete

\* tok := dec.ReadToken(); if tok.Kind() != '{' { return enc.WriteToken(tok) }
InjReadFirst ==
    /\ inPc = "start"
    /\ IF inDoc.k = "obj"
       THEN /\ inOut' = [inOut EXCEPT !.began = "{"]
            /\ inPc' = "loop"
       ELSE IF inDoc.k = "arr"
            THEN /\ inOut' = [inOut EXCEPT !.began = "["]    \* the token is "[" alone
                 /\ inPc' = "done"
            ELSE /\ inOut' = [inOut EXCEPT !.top = inDoc]     \* the token is the value
                 /\ inPc' = "done"
    /\ UNCHANGED <<inDoc, inPos, inFound, inErr, inDefect, inWerr, inFirst>>
    /\ UNCHANGED notInj

\* one iteration of: for dec.PeekKind() != '}' { ... }
InjMember ==
    /\ inPc = "loop"
    /\ inPos < Len(inDoc.members)
    /\ ~DefectHere
    /\ LET m == inDoc.members[inPos + 1] IN
         IF m.key = "system"
         THEN /\ inFound' = TRUE
              /\ inOut' = [inOut EXCEPT
                             !.members = Append(@, Member(m.key, ensureSystemPrompt(m.val)))]
         ELSE /\ inOut' = [inOut EXCEPT !.members = Append(@, m)]
              /\ UNCHANGED inFound
    /\ inPos' = inPos + 1
    /\ UNCHANGED <<inDoc, inPc, inErr, inDefect, inWerr, inFirst>>
    /\ UNCHANGED notInj

\* after the loop: if !foundSystem { write "system": systemPromptArray }; write '}'
InjClose ==
    /\ inPc = "loop"
    /\ inPos = Len(inDoc.members)
    /\ ~DefectHere
    /\ inOut' = [inOut EXCEPT
                   !.members = IF inFound THEN @
                               ELSE Append(@, Member("system", systemPromptArray)),
                   !.closed = TRUE]
    /\ inPc' = "done"
    /\ UNCHANGED <<inDoc, inPos, inFound, inErr, inDefect, inWerr, inFirst>>
    /\ UNCHANGED notInj

InjNext ==
    \/ InjReadFirst
    \/ InjMember
    \/ InjClose

\* in the loop, dec.ReadToken() for the name or dec.ReadValue() for the value
\* returns an error: return err.  PeekKind is not '}' at a defect, so the loop
\* body is entered; a name that was read has been written to the encoder
InjDecodeError ==
    /\ inPc = "loop"
    /\ DefectHere
    /\ IF inDefect.kind = "bad_value"
       THEN LET m == inDoc.members[inPos + 1] IN
            /\ inOut' = [inOut EXCEPT !.members = Append(@, Member(m.key, Incomplete))]
            /\ inFound' = (inFound \/ m.key = "system")
       ELSE UNCHANGED <<inOut, inFound>>
    /\ inErr' = TRUE
    /\ inPc' = "done"
    /\ UNCHANGED <<inDoc, inPos, inDefect, inWerr, inFirst>>
    /\ UNCHANGED notInj

\* a variant of the step below that closes the pipe without the error
InjCloseWithErrorDropped ==
    /\ inPc = "done"
    /\ inWerr' = "EOF"
    /\ inPc' = "closed"
    /\ UNCHANGED <<inDoc, inPos, inOut, inFound, inErr, inDefect, inFirst>>
    /\ UNCHANGED notInj

\* the goroutine of RoundTrip: err := injectSystemPrompt(req.Body, pw);
\* pw.CloseWithError(err), where a nil error closes with io.EOF
InjCloseWithError ==
    /\ inPc = "done"
    /\ inWerr' = IF inErr THEN "error" ELSE "EOF"
    /\ inPc' = "closed"
    /\ UNCHANGED <<inDoc, inPos, inOut, inFound, inErr, inDefect, inFirst>>
    /\ UNCHANGED notInj

\* the bodies given to the goroutine: objects, complete or with a defect
DefectSystemValues == {JNull, JArr(<<>>), JArr(<<HelpfulElement>>)}
DefectDocs ==
    {JObj([i \in 1..Len(q) |-> Member(q[i], ValueOf(q[i], sv))]) :
        q \in KeySeqs, sv \in DefectSystemValues}

InjBodyInit ==
    /\ inDoc \in DefectDocs
    /\ inDefect \in DefectsOf(inDoc)
    /\ inPos = 0
    /\ inPc = "start"
    /\ inOut = EmptyOut
    /\ inFound = FALSE
    /\ inErr = FALSE
    /\ inWerr = Null
    /\ inFirst = Incomplete

InjBodyNext ==
    \/ InjReadFirst
    \/ InjMember
    \/ InjClose
    \/ InjDecodeError
    \/ InjCloseWithError

\* the JSON value the output holds, Incomplete when it is not a complete value
OutValue ==
    IF inOut.began = "{" /\ inOut.closed THEN JObj(inOut.members)
    ELSE IF inOut.began = "" THEN inOut.top
    ELSE Incomplete

\* injectSystemPrompt applied to its own output: the object a first application
\* wrote is the document of a second one
InjAgain ==
    /\ inPc = "done"
    /\ ~inErr
    /\ inFirst = Incomplete
    /\ inDoc.k = "obj"
    /\ OutValue # Incomplete
    /\ inFirst' = OutValue
    /\ inDoc' = OutValue
    /\ inPos' = 0
    /\ inPc' = "start"
    /\ inOut' = EmptyOut
    /\ inFound' = FALSE
    /\ UNCHANGED <<inErr, inDefect, inWerr>>
    /\ UNCHANGED notInj

InjTwiceNext ==
    \/ InjReadFirst
    \/ InjMember
    \/ InjClose
    \/ InjAgain

(***************************************************************************)
(* Properties of the injector.                                             *)
(***************************************************************************)
InjDone == inPc = "done"

\* v is exactly {"type":"text","text":<prompt>}, whatever the order of its members
IsPromptElement(v) ==
    /\ v.k = "obj"
    /\ Len(v.members) = 2
    /\ Keys(v) = {"type", "text"}
    /\ Get(v, "type") = JStr("text")
    /\ Get(v, "text") = JStr(claudeCodeSystemPrompt)

\* v is an object whose type is "text" and whose text is the prompt
CarriesPrompt(v) ==
    /\ v.k = "obj"
    /\ HasKey(v, "type") /\ Get(v, "type") = JStr("text")
    /\ HasKey(v, "text") /\ Get(v, "text") = JStr(claudeCodeSystemPrompt)

\* the output is a valid JSON object with the keys of the input plus "system",
\* every other member unchanged, and system a non-empty array
InjectedObject ==
    /\ ~inErr
    /\ OutValue.k = "obj"
    /\ Cardinality(Keys(OutValue)) = Len(OutValue.members)
    /\ Keys(OutValue) = Keys(inDoc) \cup {"system"}
    /\ \A key \in Keys(inDoc) \ {"system"} : Get(OutValue, key) = Get(inDoc, key)
    /\ Get(OutValue, "system").k = "arr"
    /\ Len(Get(OutValue, "system").items) >= 1

OutFirst == Get(OutValue, "system").items[1]

\* C4 as stated: for every valid JSON object the output is a valid JSON object whose
\* system array begins with exactly the prompt element, all other keys unchanged.
C4_FirstElementExactlyPrompt ==
    (InjDone /\ inDoc.k = "obj") => (InjectedObject /\ IsPromptElement(OutFirst))

\* C4 (amended): for every valid JSON object the output is a valid JSON object with
\* the input's keys plus system and every other member unchanged; its system member
\* is an array whose first element is an object with type "text" and text the
\* prompt: exactly the prompt element, or else the first element of the input's own
\* system array, kept with the further members it carries.
C4_FirstElementCarriesPrompt ==
    (InjDone /\ inDoc.k = "obj") =>
        /\ InjectedObject
        /\ CarriesPrompt(OutFirst)
        /\ \/ IsPromptElement(OutFirst)
           \/ /\ HasKey(inDoc, "system")
              /\ Get(OutValue, "system") = Get(inDoc, "system")

\* an input with a system array of other elements and two more members
C4_Witness ==
    /\ InjDone
    /\ Len(inDoc.members) = 3
    /\ HasKey(inDoc, "system")
    /\ Get(inDoc, "system") = JArr(<<HelpfulElement, JStr("plain")>>)
    /\ Get(OutValue, "system") = JArr(<<systemPromptElement, HelpfulElement, JStr("plain")>>)

\* the input's system value is an array that begins with an object of type "text"
\* whose text is the prompt
InputHasPromptFirst ==
    /\ inDoc.k = "obj"
    /\ HasKey(inDoc, "system")
    /\ Get(inDoc, "system").k = "arr"
    /\ Len(Get(inDoc, "system").items) >= 1
    /\ CarriesPrompt(Get(inDoc, "system").items[1])

\* C5: a system array whose first element is an object with type "text" and text
\* the prompt is written unchanged, whatever other members that object carries.
C5_PromptFirstUnchanged ==
    (InjDone /\ InputHasPromptFirst) =>
        (~inErr /\ Get(OutValue, "system") = Get(inDoc, "system"))

\* C6: a valid JSON document that is not an object is passed through complete and
\* unchanged, with no error.
C6_NonObjectPassThrough ==
    (InjDone /\ inDoc.k # "obj") => (~inErr /\ OutValue = inDoc)

(***************************************************************************)
(* ImpersonationTransport.RoundTrip: header filter, impersonation headers, *)
(* body policy.  A header map is a function from the names present to      *)
(* their values; the value of Anthropic-Beta is kept as the sequence of    *)
(* its comma-separated items, each a feature name with the blanks around   *)
(* it (the header string is the items joined by ",").                      *)
(***************************************************************************)
allowedHeaders ==
    {"Content-Type", "Content-Length", "Accept", "Accept-Encoding", "Authorization",
     "Traceparent", "Tracestate"}

Item(name, blanks) == [name |-> name, blanks |-> blanks]

\* the value the transport sets: Header.Set("Anthropic-Beta", "oauth-2025-04-20,
\* claude-code-20250219,interleaved-thinking-2025-05-14,fine-grained-tool-streaming-2025-05-14")
anthropicBetaValue ==
    <<Item("oauth-2025-04-20", ""), Item("claude-code-20250219", ""),
      Item("interleaved-thinking-2025-05-14", ""),
      Item("fine-grained-tool-streaming-2025-05-14", "")>>

anthropicVersionValue == <<"2023-06-01">>

\* the headers a client may send, each with the value it has when present
InboundNames ==
    allowedHeaders \cup {"User-Agent", "X-Api-Key", "Baggage", "Anthropic-Version",
                         "Anthropic-Beta"}

InboundBetaValues ==
    {<<Item("oauth-2025-04-20", ""), Item("custom-beta", " "), Item("another-beta", " ")>>,
     <<Item("fine-grained-tool-streaming-2025-05-14", "")>>,
     <<Item("custom-beta", ""), Item("custom-beta", "")>>}

InboundValue(name) ==
    CASE name = "Content-Type"      -> <<"application/json">>
      [] name = "Content-Length"    -> <<"20">>
      [] name = "Accept"            -> <<"application/json", "text/event-stream">>
      [] name = "Accept-Encoding"   -> <<"gzip">>
      [] name = "Authorization"     -> <<"Bearer token123">>
      [] name = "Traceparent"       -> <<"00-4bf9-00f0-01">>
      [] name = "Tracestate"        -> <<"vendor=1">>
      [] name = "User-Agent"        -> <<"custom-agent/1.0">>
      [] name = "X-Api-Key"         -> <<"secret-key">>
      [] name = "Baggage"           -> <<"user-id=7">>
      [] name = "Anthropic-Version" -> <<"2020-01-01">>
      [] OTHER                      -> <<>>

InboundHeaders ==
    {[n \in names |-> IF n = "Anthropic-Beta" THEN beta ELSE InboundValue(n)] :
        names \in SUBSET InboundNames, beta \in InboundBetaValues}

Requests ==
    [Method : {"GET", "POST"}, HasBody : BOOLEAN, Header : InboundHeaders]

NoRequest == [Method |-> "", HasBody |-> FALSE, Header |-> <<>>, ContentLength |-> 0,
              Body |-> "none"]

\* http.Header.Set and http.Header.Del
HeaderSet(h, name, value) == [n \in (DOMAIN h) \cup {name} |-> IF n = name THEN value ELSE h[n]]
HeaderDel(h, name) == [n \in (DOMAIN h) \ {name} |-> h[n]]

\* a variant that forwards every inbound header
filterHeadersKeepAll(h) == h

\* for key, values := range originalHeaders { if allowedHeaders[key] { ... } }
filterHeaders(h) == [n \in (DOMAIN h) \cap allowedHeaders |-> h[n]]

RtIdle ==
    /\ rtReq = NoRequest
    /\ rtNew = NoRequest
    /\ rtPc = "idle"
    /\ rtSent = NoRequest
    /\ rtProducer = FALSE

RtInit ==
    /\ \E r \in Requests :
         rtReq = [Method |-> r.Method, HasBody |-> r.HasBody, Header |-> r.Header,
                  ContentLength |-> IF r.HasBody THEN 20 ELSE 0,
                  Body |-> IF r.HasBody THEN "inbound" ELSE "none"]
    /\ rtNew = NoRequest
    /\ rtPc = "clone"
    /\ rtSent = NoRequest
    /\ rtProducer = FALSE

\* newReq := req.Clone(ctx); newReq.Header = the allowed headers of the original
RtFilter ==
    /\ rtPc = "clone"
    /\ rtNew' = [rtReq EXCEPT !.Header = filterHeaders(rtReq.Header)]
    /\ rtPc' = "set"
    /\ UNCHANGED <<rtReq, rtSent, rtProducer>>
    /\ UNCHANGED notRt

\* newReq.Header.Set("Anthropic-Beta", ...); newReq.Header.Set("Anthropic-Version", ...)
RtSetHeaders ==
    /\ rtPc = "set"
    /\ rtNew' = [rtNew EXCEPT
                   !.Header = HeaderSet(HeaderSet(@, "Anthropic-Beta", anthropicBetaValue),
                                        "Anthropic-Version", anthropicVersionValue)]
    /\ rtPc' = "body"
    /\ UNCHANGED <<rtReq, rtSent, rtProducer>>
    /\ UNCHANGED notRt

\* if req.Method != POST || req.Body == nil { return base.RoundTrip(newReq) }
RtSendUnchanged ==
    /\ rtPc = "body"
    /\ rtReq.Method # "POST" \/ ~rtReq.HasBody
    /\ rtSent' = rtNew
    /\ rtPc' = "sent"
    /\ UNCHANGED <<rtReq, rtNew, rtProducer>>
    /\ UNCHANGED notRt

\* a variant of the step below that leaves the inbound length on the request
RtSendRewrittenKeepLength ==
    /\ rtPc = "body"
    /\ rtReq.Method = "POST" /\ rtReq.HasBody
    /\ rtProducer' = TRUE
    /\ rtSent' = [rtNew EXCEPT !.Body = "pipe"]
    /\ rtPc' = "sent"
    /\ UNCHANGED <<rtReq, rtNew>>
    /\ UNCHANGED notRt

\* pr, pw := io.Pipe(); go func() { injectSystemPrompt(req.Body, pw) ... }();
\* newReq.Body = pr; newReq.ContentLength = -1; Header.Del("Content-Length"); send
RtSendRewritten ==
    /\ rtPc = "body"
    /\ rtReq.Method = "POST" /\ rtReq.HasBody
    /\ rtProducer' = TRUE
    /\ rtSent' = [rtNew EXCEPT !.Body = "pipe",
                               !.ContentLength = -1,
                               !.Header = HeaderDel(@, "Content-Length")]
    /\ rtPc' = "sent"
    /\ UNCHANGED <<rtReq, rtNew>>
    /\ UNCHANGED notRt

RtNext ==
    \/ RtFilter
    \/ RtSetHeaders
    \/ RtSendUnchanged
    \/ RtSendRewritten

(***************************************************************************)
(* Properties of the header policy.                                        *)
(***************************************************************************)
RtSentNow == rtPc = "sent"
BodyRewritten == rtReq.Method = "POST" /\ rtReq.HasBody

\* C7 as stated: the outbound header names are within the allow-list plus
\* Anthropic-Version and Anthropic-Beta, every allowed inbound header reaches the
\* base transport with its inbound value, and Anthropic-Version is 2023-06-01.
C7_AllowedHeadersAllKept ==
    RtSentNow =>
        /\ DOMAIN rtSent.Header \subseteq allowedHeaders \cup {"Anthropic-Version", "Anthropic-Beta"}
        /\ \A n \in allowedHeaders \cap DOMAIN rtReq.Header :
               n \in DOMAIN rtSent.Header /\ rtSent.Header[n] = rtReq.Header[n]
        /\ rtSent.Header["Anthropic-Version"] = <<"2023-06-01">>

\* C7 (amended): the outbound header names are within the allow-list plus
\* Anthropic-Version and Anthropic-Beta; every allowed inbound header keeps its
\* inbound value, except Content-Length, which is removed when the body is rewritten
\* (POST with a body); no allowed header is added that the client did not send; and
\* Anthropic-Version is 2023-06-01.
C7_AllowedHeadersKeptButLength ==
    RtSentNow =>
        /\ DOMAIN rtSent.Header \subseteq allowedHeaders \cup {"Anthropic-Version", "Anthropic-Beta"}
        /\ (DOMAIN rtSent.Header) \cap allowedHeaders \subseteq DOMAIN rtReq.Header
        /\ \A n \in allowedHeaders \cap DOMAIN rtReq.Header :
               IF n = "Content-Length" /\ BodyRewritten
               THEN n \notin DOMAIN rtSent.Header
               ELSE n \in DOMAIN rtSent.Header /\ rtSent.Header[n] = rtReq.Header[n]
        /\ rtSent.Header["Anthropic-Version"] = <<"2023-06-01">>

C7_Witness ==
    /\ RtSentNow
    /\ BodyRewritten
    /\ {"Content-Length", "Authorization", "Accept", "User-Agent", "X-Api-Key",
        "Anthropic-Version"} \subseteq DOMAIN rtReq.Header
    /\ rtSent.Header["Authorization"] = <<"Bearer token123">>
    /\ "User-Agent" \notin DOMAIN rtSent.Header

\* the merge the claim describes: the two required features, then each inbound
\* item, trimmed, in order, unless empty or already in the list built so far
RECURSIVE MergeFeatures(_, _)
MergeFeatures(built, items) ==
    IF items = <<>> THEN built
    ELSE LET f == Head(items).name IN
         IF f = "" \/ \E j \in 1..Len(built) : built[j].name = f
         THEN MergeFeatures(built, Tail(items))
         ELSE MergeFeatures(Append(built, Item(f, "")), Tail(items))

RequiredFeatures == <<Item("claude-code-20250219", ""), Item("oauth-2025-04-20", "")>>

InboundBeta ==
    IF "Anthropic-Beta" \in DOMAIN rtReq.Header THEN rtReq.Header["Anthropic-Beta"] ELSE <<>>

\* C8: the outbound Anthropic-Beta is "claude-code-20250219,oauth-2025-04-20"
\* followed by the inbound features, trimmed, in inbound order, without duplicates.
C8_BetaMerged ==
    RtSentNow => rtSent.Header["Anthropic-Beta"] = MergeFeatures(RequiredFeatures, InboundBeta)

(***************************************************************************)
(* The body pipe of RoundTrip (impersonation.go 73-93).  The producer      *)
(* goroutine runs injectSystemPrompt(req.Body, pw), closes pw with the     *)
(* result and closes req.Body.  The consumer is whoever reads newReq.Body  *)
(* (the base transport).  io.Pipe is synchronous: a Write returns when the *)
(* reader has taken all its bytes or when either side has been closed.     *)
(***************************************************************************)
PipeIdle ==
    /\ ppPc = "idle"
    /\ ppLeft = 0
    /\ ppData = 0
    /\ ppRerr = FALSE
    /\ ppWerr = Null
    /\ ppErr = Null
    /\ ppBody = "open"
    /\ ppCon = "idle"
    /\ ppWhy = Null

\* pr, pw := io.Pipe(); go func() {...}(); newReq.Body = pr; base.RoundTrip(newReq)
PipeInit ==
    /\ ppPc = "inject"
    /\ ppLeft \in 0..MaxPieces
    /\ ppData = 0
    /\ ppRerr = FALSE
    /\ ppWerr = Null
    /\ ppErr = Null
    /\ ppBody = "open"
    /\ ppCon = "reading"
    /\ ppWhy = Null

\* the done channel of the pipe is closed by the first close of either side
PipeDone == ppRerr \/ ppWerr # Null

\* injectSystemPrompt reads the inbound body: it fails, finishes, or has a piece
\* of output for the encoder to write
PipeInject ==
    /\ ppPc = "inject"
    /\ \/ /\ ppErr' = "read_error"
          /\ ppPc' = "close"
          /\ UNCHANGED ppLeft
       \/ /\ ppLeft = 0
          /\ ppErr' = Null
          /\ ppPc' = "close"
          /\ UNCHANGED ppLeft
       \/ /\ ppLeft > 0
          /\ ppLeft' = ppLeft - 1
          /\ ppPc' = "write"
          /\ UNCHANGED ppErr
    /\ UNCHANGED <<ppData, ppRerr, ppWerr, ppBody, ppCon, ppWhy>>
    /\ UNCHANGED notPipe

\* pw.Write: fails at once on a closed pipe, otherwise offers its bytes to the reader
PipeWriteBegin ==
    /\ ppPc = "write"
    /\ IF PipeDone
       THEN /\ ppErr' = "closed_pipe"
            /\ ppPc' = "close"
            /\ UNCHANGED ppData
       ELSE /\ \E n \in 1..MaxWriteLen : ppData' = n
            /\ ppPc' = "blocked"
            /\ UNCHANGED ppErr
    /\ UNCHANGED <<ppLeft, ppRerr, ppWerr, ppBody, ppCon, ppWhy>>
    /\ UNCHANGED notPipe

\* a variant of the wait below that returns only when the reader took every byte
PipeWriteWaitIgnoreClose ==
    /\ ppPc = "blocked"
    /\ ppData = 0
    /\ ppPc' = "inject"
    /\ UNCHANGED <<ppLeft, ppData, ppRerr, ppWerr, ppErr, ppBody, ppCon, ppWhy>>
    /\ UNCHANGED notPipe

\* pw.Write blocked: returns nil when the reader took every byte, io.ErrClosedPipe
\* when the pipe is closed with bytes outstanding
PipeWriteWait ==
    /\ ppPc = "blocked"
    /\ ppData = 0 \/ PipeDone
    /\ IF ppData = 0
       THEN /\ ppPc' = "inject"
            /\ UNCHANGED ppErr
       ELSE /\ ppErr' = "closed_pipe"
            /\ ppPc' = "close"
    /\ UNCHANGED <<ppLeft, ppData, ppRerr, ppWerr, ppBody, ppCon, ppWhy>>
    /\ UNCHANGED notPipe

\* pw.CloseWithError(err): a nil error closes with io.EOF
PipeCloseWithError ==
    /\ ppPc = "close"
    /\ ppWerr' = IF ppErr = Null THEN "EOF" ELSE ppErr
    /\ ppPc' = "closeBody"
    /\ UNCHANGED <<ppLeft, ppData, ppRerr, ppErr, ppBody, ppCon, ppWhy>>
    /\ UNCHANGED notPipe

\* _ = req.Body.Close(); the goroutine returns
PipeBodyClose ==
    /\ ppPc = "closeBody"
    /\ ppBody' = "closed"
    /\ ppPc' = "exited"
    /\ UNCHANGED <<ppLeft, ppData, ppRerr, ppWerr, ppErr, ppCon, ppWhy>>
    /\ UNCHANGED notPipe

\* the consumer reads newReq.Body: takes bytes of the write in progress, or sees
\* the error the write side was closed with
PipeConsumerRead ==
    /\ ppCon = "reading"
    /\ IF PipeDone
       THEN /\ ppCon' = "ended"
            /\ UNCHANGED ppData
       ELSE /\ ppData > 0
            /\ \E k \in 1..ppData : ppData' = ppData - k
            /\ UNCHANGED ppCon
    /\ UNCHANGED <<ppPc, ppLeft, ppRerr, ppWerr, ppErr, ppBody, ppWhy>>
    /\ UNCHANGED notPipe

\* the consumer closes newReq.Body (pr.Close): after the end of the body, or
\* before it on a client disconnect or a cancelled context
PipeConsumerClose ==
    /\ \/ ppCon = "ended" /\ ppWhy' = "completed"
       \/ ppCon = "reading" /\ ppWhy' \in {"disconnect", "cancelled"}
    /\ ppRerr' = TRUE
    /\ ppCon' = "closed"
    /\ UNCHANGED <<ppPc, ppLeft, ppData, ppWerr, ppErr, ppBody>>
    /\ UNCHANGED notPipe

PipeNext ==
    \/ PipeInject
    \/ PipeWriteBegin
    \/ PipeWriteWait
    \/ PipeCloseWithError
    \/ PipeBodyClose
    \/ PipeConsumerRead
    \/ PipeConsumerClose

\* the goroutine is scheduled, and a read of the inbound body returns
PipeFairness ==
    /\ WF_vars(PipeInject)
    /\ WF_vars(PipeWriteBegin)
    /\ WF_vars(PipeWriteWait)
    /\ WF_vars(PipeCloseWithError)
    /\ WF_vars(PipeBodyClose)

(***************************************************************************)
(* Properties of the body pipe.                                            *)
(***************************************************************************)
ProducerExited == ppPc = "exited" /\ ppBody = "closed" /\ ppWerr # Null

\* C9: once the consumer has closed the outbound body, the producer goroutine
\* eventually closes the inbound body and exits; a write blocked on the pipe with
\* bytes outstanding is released with the closed-pipe error and goes on to
\* pw.CloseWithError, and the goroutine exits only after closing req.Body.
C9_ProducerTerminates ==
    /\ (ppCon = "closed") ~> ProducerExited
    /\ [][(ppPc = "blocked" /\ ppRerr /\ ppData > 0 /\ ppPc' # ppPc)
              => (ppErr' = "closed_pipe" /\ ppPc' = "close")]_vars
    /\ [](ppPc = "exited" => ProducerExited)

C9_Witness ==
    /\ ppCon = "closed"
    /\ ppWhy = "disconnect"
    /\ ProducerExited
    /\ ppErr = "closed_pipe"
    /\ ppWerr = "closed_pipe"
    /\ ppData > 0
    /\ ppLeft > 0

(***************************************************************************)
(* PersistentTokenSource: deferred once-only initialisation and write-back *)
(* of rotated refresh tokens, with NumCallers goroutines calling Token().  *)
(***************************************************************************)
Callers == 1..NumCallers

\* the refresh tokens: r0 is what the store holds at start, r1, r2, ... are rotations
Rt(k) == "r" \o ToString(k)

\* solo and wrote are observers: no other Token() call overlapped this one, and
\* whether this call invoked tokenStore.Write ("no", "ok", "failed")
NoLocals == [ts |-> 0, initialToken |-> Null, fresh |-> Null, last |-> Null, err |-> Null,
             solo |-> TRUE, wrote |-> "no"]

NoCounts == [read |-> 0, factory |-> 0, write |-> 0, token |-> 0]

\* the state before NewPersistentTokenSource; the factory builds a static source
\* (tokens without refresh token) or a refreshing one
TkIdle ==
    /\ tkBuilt = FALSE
    /\ tkPc = [c \in Callers |-> "idle"]
    /\ tkLoc = [c \in Callers |-> NoLocals]
    /\ tkOnce = "new"
    /\ tkOnceVal = [ts |-> 0, err |-> FALSE]
    /\ tkStore = Rt(0)
    /\ tkLast = Null
    /\ tkMu = 0
    /\ tkInner = [kind |-> "static", issued |-> 0]
    /\ tkCount = NoCounts

TkInit ==
    /\ tkBuilt = FALSE
    /\ tkPc = [c \in Callers |-> "idle"]
    /\ tkLoc = [c \in Callers |-> NoLocals]
    /\ tkOnce = "new"
    /\ tkOnceVal = [ts |-> 0, err |-> FALSE]
    /\ tkStore = Rt(0)
    /\ tkLast = Null
    /\ tkMu = 0
    /\ \E k \in {"static", "refresh"} : tkInner = [kind |-> k, issued |-> 0]
    /\ tkCount = NoCounts

Goto(c, pc) == tkPc' = [tkPc EXCEPT ![c] = pc]

\* NewPersistentTokenSource: nil checks, then p.tokenSource = sync.OnceValues(...)
NewPersistentTokenSource(valid) ==
    /\ ~tkBuilt
    /\ tkBuilt' = valid
    /\ UNCHANGED <<tkPc, tkLoc, tkOnce, tkOnceVal, tkStore, tkLast, tkMu, tkInner, tkCount>>
    /\ UNCHANGED notTok

\* a goroutine calls p.Token()
TkToken(c) ==
    /\ tkBuilt
    /\ tkPc[c] = "idle"
    /\ tkCount.token < MaxCalls
    /\ tkCount' = [tkCount EXCEPT !.token = @ + 1]
    /\ tkLoc' = [d \in Callers |->
                   IF d = c
                   THEN [NoLocals EXCEPT !.solo = \A o \in Callers : tkPc[o] = "idle"]
                   ELSE IF tkPc[d] = "idle" THEN tkLoc[d] ELSE [tkLoc[d] EXCEPT !.solo = FALSE]]
    /\ Goto(c, "once")
    /\ UNCHANGED <<tkBuilt, tkOnce, tkOnceVal, tkStore, tkLast, tkMu, tkInner>>
    /\ UNCHANGED notTok

\* a variant of the step below in which every caller runs createTokenSource itself
TkOnceEnterNoOnce(c) ==
    /\ tkPc[c] = "once"
    /\ Goto(c, "read")
    /\ UNCHANGED <<tkBuilt, tkLoc, tkOnce, tkOnceVal, tkStore, tkLast, tkMu, tkInner, tkCount>>
    /\ UNCHANGED notTok

\* ts, err := p.tokenSource(): the first caller runs createTokenSource, a caller
\* arriving while it runs waits, a later caller gets the cached pair
TkOnceEnter(c) ==
    /\ tkPc[c] = "once"
    /\ tkOnce # "running"
    /\ IF tkOnce = "new"
       THEN /\ tkOnce' = "running"
            /\ Goto(c, "read")
            /\ UNCHANGED tkLoc
       ELSE /\ UNCHANGED tkOnce
            /\ IF tkOnceVal.err
               THEN /\ tkLoc' = [tkLoc EXCEPT ![c].err = "init_failed"]
                    /\ Goto(c, "ret")
               ELSE /\ tkLoc' = [tkLoc EXCEPT ![c].ts = tkOnceVal.ts]
                    /\ Goto(c, "inner")
    /\ UNCHANGED <<tkBuilt, tkOnceVal, tkStore, tkLast, tkMu, tkInner, tkCount>>
    /\ UNCHANGED notTok

\* createTokenSource: initialToken, err := p.tokenStore.Read(ctx)
TkStoreRead(c, ok) ==
    /\ tkPc[c] = "read"
    /\ tkCount.read < MaxReads
    /\ tkCount' = [tkCount EXCEPT !.read = @ + 1]
    /\ IF ok
       THEN /\ tkLoc' = [tkLoc EXCEPT ![c].initialToken = tkStore]
            /\ Goto(c, "remember")
            /\ UNCHANGED <<tkOnce, tkOnceVal>>
       ELSE /\ tkLoc' = [tkLoc EXCEPT ![c].err = "init_failed"]
            /\ tkOnce' = "done"
            /\ tkOnceVal' = [ts |-> 0, err |-> TRUE]
            /\ Goto(c, "ret")
    /\ UNCHANGED <<tkBuilt, tkStore, tkLast, tkMu, tkInner>>
    /\ UNCHANGED notTok

\* createTokenSource: p.lastRefreshToken.Store(&initialToken)
TkRemember(c) ==
    /\ tkPc[c] = "remember"
    /\ tkLast' = tkLoc[c].initialToken
    /\ Goto(c, "factory")
    /\ UNCHANGED <<tkBuilt, tkLoc, tkOnce, tkOnceVal, tkStore, tkMu, tkInner, tkCount>>
    /\ UNCHANGED notTok

\* createTokenSource: return p.factory(initialToken), nil; the cell caches the pair
TkFactory(c) ==
    /\ tkPc[c] = "factory"
    /\ tkCount' = [tkCount EXCEPT !.factory = @ + 1]
    /\ tkOnce' = "done"
    /\ tkOnceVal' = [ts |-> tkCount.factory + 1, err |-> FALSE]
    /\ tkLoc' = [tkLoc EXCEPT ![c].ts = tkCount.factory + 1]
    /\ Goto(c, "inner")
    /\ UNCHANGED <<tkBuilt, tkStore, tkLast, tkMu, tkInner>>
    /\ UNCHANGED notTok

\* freshToken, err := ts.Token(): an error, the current token, or a rotated one
TkInnerToken(c) ==
    /\ tkPc[c] = "inner"
    /\ \/ /\ tkLoc' = [tkLoc EXCEPT ![c].err = "inner_failed"]
          /\ Goto(c, "ret")
          /\ UNCHANGED tkInner
       \/ /\ tkInner.kind = "static"
          /\ tkLoc' = [tkLoc EXCEPT ![c].fresh = ""]
          /\ Goto(c, "load")
          /\ UNCHANGED tkInner
       \/ /\ tkInner.kind = "refresh"
          /\ tkLoc' = [tkLoc EXCEPT ![c].fresh = Rt(tkInner.issued)]
          /\ Goto(c, "load")
          /\ UNCHANGED tkInner
       \/ /\ tkInner.kind = "refresh"
          /\ tkInner.issued < MaxRotations
          /\ tkInner' = [tkInner EXCEPT !.issued = @ + 1]
          /\ tkLoc' = [tkLoc EXCEPT ![c].fresh = Rt(tkInner.issued + 1)]
          /\ Goto(c, "load")
    /\ UNCHANGED <<tkBuilt, tkOnce, tkOnceVal, tkStore, tkLast, tkMu, tkCount>>
    /\ UNCHANGED notTok

\* a variant of the step below that writes back every non-empty refresh token
TkLoadAlwaysWrite(c) ==
    /\ tkPc[c] = "load"
    /\ LET last == IF tkLast = Null THEN "" ELSE tkLast IN
         /\ tkLoc' = [tkLoc EXCEPT ![c].last = last]
         /\ IF tkLoc[c].fresh # ""
            THEN Goto(c, "lock")
            ELSE Goto(c, "ret")
    /\ UNCHANGED <<tkBuilt, tkOnce, tkOnceVal, tkStore, tkLast, tkMu, tkInner, tkCount>>
    /\ UNCHANGED notTok

\* lastPtr := p.lastRefreshToken.Load(); if RefreshToken != "" && RefreshToken != last
TkLoad(c) ==
    /\ tkPc[c] = "load"
    /\ LET last == IF tkLast = Null THEN "" ELSE tkLast IN
         /\ tkLoc' = [tkLoc EXCEPT ![c].last = last]
         /\ IF tkLoc[c].fresh # "" /\ tkLoc[c].fresh # last
            THEN Goto(c, "lock")
            ELSE Goto(c, "ret")
    /\ UNCHANGED <<tkBuilt, tkOnce, tkOnceVal, tkStore, tkLast, tkMu, tkInner, tkCount>>
    /\ UNCHANGED notTok

\* a variant of the step below that does not wait for the mutex
TkLockNoWait(c) ==
    /\ tkPc[c] = "lock"
    /\ tkMu' = c
    /\ Goto(c, "write")
    /\ UNCHANGED <<tkBuilt, tkLoc, tkOnce, tkOnceVal, tkStore, tkLast, tkInner, tkCount>>
    /\ UNCHANGED notTok

\* p.writeMu.Lock()
TkLock(c) ==
    /\ tkPc[c] = "lock"
    /\ tkMu = 0
    /\ tkMu' = c
    /\ Goto(c, "write")
    /\ UNCHANGED <<tkBuilt, tkLoc, tkOnce, tkOnceVal, tkStore, tkLast, tkInner, tkCount>>
    /\ UNCHANGED notTok

\* a variant of the step below that updates the cache after a failed write too
TkStoreWriteAlwaysCache(c, ok) ==
    /\ tkPc[c] = "write"
    /\ tkCount' = [tkCount EXCEPT !.write = @ + 1]
    /\ IF ok
       THEN /\ tkStore' = tkLoc[c].fresh
            /\ tkLoc' = [tkLoc EXCEPT ![c].wrote = "ok"]
       ELSE /\ UNCHANGED tkStore
            /\ tkLoc' = [tkLoc EXCEPT ![c].wrote = "failed"]
    /\ Goto(c, "cache")
    /\ UNCHANGED <<tkBuilt, tkOnce, tkOnceVal, tkLast, tkMu, tkInner>>
    /\ UNCHANGED notTok

\* p.tokenStore.Write(ctx, freshToken.RefreshToken)
TkStoreWrite(c, ok) ==
    /\ tkPc[c] = "write"
    /\ tkCount' = [tkCount EXCEPT !.write = @ + 1]
    /\ IF ok
       THEN /\ tkStore' = tkLoc[c].fresh
            /\ tkLoc' = [tkLoc EXCEPT ![c].wrote = "ok"]
            /\ Goto(c, "cache")
       ELSE /\ UNCHANGED tkStore
            /\ tkLoc' = [tkLoc EXCEPT ![c].wrote = "failed"]
            /\ Goto(c, "unlock")
    /\ UNCHANGED <<tkBuilt, tkOnce, tkOnceVal, tkLast, tkMu, tkInner>>
    /\ UNCHANGED notTok

\* p.lastRefreshToken.Store(&newToken), only after a successful write
TkCache(c) ==
    /\ tkPc[c] = "cache"
    /\ tkLast' = tkLoc[c].fresh
    /\ Goto(c, "unlock")
    /\ UNCHANGED <<tkBuilt, tkLoc, tkOnce, tkOnceVal, tkStore, tkMu, tkInner, tkCount>>
    /\ UNCHANGED notTok

\* p.writeMu.Unlock()
TkUnlock(c) ==
    /\ tkPc[c] = "unlock"
    /\ tkMu' = 0
    /\ Goto(c, "ret")
    /\ UNCHANGED <<tkBuilt, tkLoc, tkOnce, tkOnceVal, tkStore, tkLast, tkInner, tkCount>>
    /\ UNCHANGED notTok

\* Token returns (freshToken, nil) or (nil, err)
TkReturn(c) ==
    /\ tkPc[c] = "ret"
    /\ Goto(c, "idle")
    /\ UNCHANGED <<tkBuilt, tkLoc, tkOnce, tkOnceVal, tkStore, tkLast, tkMu, tkInner, tkCount>>
    /\ UNCHANGED notTok

TkNext ==
    \/ \E valid \in BOOLEAN : NewPersistentTokenSource(valid)
    \/ \E c \in Callers : TkToken(c)
    \/ \E c \in Callers : TkOnceEnter(c)
    \/ \E c \in Callers, ok \in BOOLEAN : TkStoreRead(c, ok)
    \/ \E c \in Callers : TkRemember(c)
    \/ \E c \in Callers : TkFactory(c)
    \/ \E c \in Callers : TkInnerToken(c)
    \/ \E c \in Callers : TkLoad(c)
    \/ \E c \in Callers : TkLock(c)
    \/ \E c \in Callers, ok \in BOOLEAN : TkStoreWrite(c, ok)
    \/ \E c \in Callers : TkCache(c)
    \/ \E c \in Callers : TkUnlock(c)
    \/ \E c \in Callers : TkReturn(c)

(***************************************************************************)
(* Properties of the token source.                                         *)
(***************************************************************************)
\* the caller has an inner source in hand
HasSource(c) == tkLoc[c].ts # 0

\* C10: NewPersistentTokenSource performs no store read (nothing is read before
\* the first Token() call); the store Read and the factory call run at most once
\* whatever the interleaving of Token() calls, exactly once each as soon as a
\* caller has an inner source; and every caller has the same inner source.
C10_InitOnce ==
    /\ tkCount.token = 0 => tkCount.read = 0 /\ tkCount.factory = 0
    /\ tkCount.read <= 1
    /\ tkCount.factory <= 1
    /\ \A c \in Callers :
          HasSource(c) => tkCount.read = 1 /\ tkCount.factory = 1 /\ tkLoc[c].ts = 1
    /\ \A c \in Callers :
          tkPc[c] \in {"inner", "load", "lock", "write", "cache", "unlock"} => HasSource(c)

C10_Witness ==
    /\ tkBuilt
    /\ tkCount.token = MaxCalls
    /\ \A c \in Callers : tkPc[c] = "load" /\ tkLoc[c].ts = 1
    /\ tkCount.read = 1
    /\ tkCount.factory = 1

\* C11: a Token() call that reaches the once cell after the initial store read
\* has failed runs the store read again instead of returning the cached failure.
C11_FailedInitRetried ==
    [][\A c \in Callers :
          (tkPc[c] = "once" /\ tkOnce = "done" /\ tkOnceVal.err /\ tkPc'[c] # "once")
              => tkPc'[c] = "read"]_vars

\* a Token() call that no other call overlapped
Solo(c) == tkLoc[c].solo

InWriteBack(c) == tkPc[c] \in {"lock", "write"}

Returning(c) == tkPc[c] = "ret" /\ tkLoc[c].err = Null

CacheIsPersisted ==
    (tkLast # Null /\ \A c \in Callers : tkPc[c] # "cache") => tkLast = tkStore

Space == {" ", "\n"}
Chars == {"a", "b"} \cup Space

RECURSIVE TrimLeft(_)
TrimLeft(str) ==
    IF str # <<>> /\ Head(str) \in Space THEN TrimLeft(Tail(str)) ELSE str

RECURSIVE TrimRight(_)
TrimRight(str) ==
    IF str # <<>> /\ str[Len(str)] \in Space
    THEN TrimRight(SubSeq(str, 1, Len(str) - 1))
    ELSE str

\* strings.TrimSpace
TrimSpace(str) == TrimRight(TrimLeft(str))

Strings(n) == UNION {[1..k -> Chars] : k \in 0..n}

FileTokens == Strings(MaxTokenLen)

NoFile == [exists |-> FALSE, content |-> <<>>, mode |-> "none"]

File(content, mode) == [exists |-> TRUE, content |-> content, mode |-> mode]

\* the token file before the first Write: absent, or left by an earlier run or by hand
InitialFiles ==
    {NoFile} \cup {File(c, m) : c \in {<<>>, <<"\n">>, <<"b">>, <<"b", "\n">>, <<" ", "b", "\n">>},
                                m \in {"0600", "0644"}}

NoReadResult == [token |-> <<>>, err |-> Null]

FsIdle ==
    /\ fsFile = NoFile
    /\ fsTemp = NoFile
    /\ fsPc = "idle"
    /\ fsTok = <<>>
    /\ fsCtx = FALSE
    /\ fsRes = Null
    /\ fsBefore = NoFile
    /\ fsRdPc = "idle"
    /\ fsRdRes = NoReadResult
    /\ fsWrites = 0

FsInit ==
    /\ fsFile \in InitialFiles
    /\ fsTemp = NoFile
    /\ fsPc = "idle"
    /\ fsTok = <<>>
    /\ fsCtx = FALSE
    /\ fsRes = Null
    /\ fsBefore = NoFile
    /\ fsRdPc = "idle"
    /\ fsRdRes = NoReadResult
    /\ fsWrites = 0

\* Write returns err; the deferred tempFile.Close and os.Remove(tempName) have run
WriteFails ==
    /\ fsRes' = "error"
    /\ fsTemp' = NoFile
    /\ fsPc' = "done"

\* Write(ctx, token): if err := ctx.Err(); err != nil { return err }
FileStoreWrite(token, cancelled) ==
    /\ fsPc \in {"idle", "done"}
    /\ fsWrites < MaxFileWrites
    /\ fsWrites' = fsWrites + 1
    /\ fsTok' = token
    /\ fsCtx' = cancelled
    /\ fsBefore' = fsFile
    /\ fsTemp' = NoFile
    /\ IF cancelled
       THEN fsRes' = "error" /\ fsPc' = "done"
       ELSE fsRes' = Null /\ fsPc' = "create"
    /\ UNCHANGED <<fsFile, fsRdPc, fsRdRes>>
    /\ UNCHANGED notFs

\* the context of the Write is cancelled while it runs
FsCancel ==
    /\ fsPc \in {"create", "write", "check"}
    /\ ~fsCtx
    /\ fsCtx' = TRUE
    /\ UNCHANGED <<fsFile, fsTemp, fsPc, fsTok, fsRes, fsBefore, fsRdPc, fsRdRes, fsWrites>>
    /\ UNCHANGED notFs

\* tempFile, err := os.CreateTemp(dir, "*.tmp"): a new file with mode 0600
FsCreateTemp(ok) ==
    /\ fsPc = "create"
    /\ IF ok
       THEN /\ fsTemp' = File(<<>>, "0600")
            /\ fsPc' = "write"
            /\ UNCHANGED fsRes
       ELSE WriteFails
    /\ UNCHANGED <<fsFile, fsTok, fsCtx, fsBefore, fsRdPc, fsRdRes, fsWrites>>
    /\ UNCHANGED notFs

\* tempFile.Write([]byte(strings.TrimSpace(token + "\n")))
FsTempWrite(ok) ==
    /\ fsPc = "write"
    /\ IF ok
       THEN /\ fsTemp' = [fsTemp EXCEPT !.content = TrimSpace(fsTok \o <<"\n">>)]
            /\ fsPc' = "check"
            /\ UNCHANGED fsRes
       ELSE WriteFails
    /\ UNCHANGED <<fsFile, fsTok, fsCtx, fsBefore, fsRdPc, fsRdRes, fsWrites>>
    /\ UNCHANGED notFs

\* if err := ctx.Err(); ...; if err := tempFile.Close(); ...
FsCloseTemp(ok) ==
    /\ fsPc = "check"
    /\ IF ~fsCtx /\ ok
       THEN /\ fsPc' = "rename"
            /\ UNCHANGED <<fsTemp, fsRes>>
       ELSE WriteFails
    /\ UNCHANGED <<fsFile, fsTok, fsCtx, fsBefore, fsRdPc, fsRdRes, fsWrites>>
    /\ UNCHANGED notFs

\* os.Rename(tempName, f.filePath): the token file is replaced in one step
FsRename(ok) ==
    /\ fsPc = "rename"
    /\ IF ok
       THEN /\ fsFile' = fsTemp
            /\ fsTemp' = NoFile
            /\ fsPc' = "chmod"
            /\ UNCHANGED fsRes
       ELSE /\ WriteFails
            /\ UNCHANGED fsFile
    /\ UNCHANGED <<fsTok, fsCtx, fsBefore, fsRdPc, fsRdRes, fsWrites>>
    /\ UNCHANGED notFs

\* os.Chmod(f.filePath, 0600); return nil
FsChmod(ok) ==
    /\ fsPc = "chmod"
    /\ IF ok
       THEN /\ fsFile' = [fsFile EXCEPT !.mode = "0600"]
            /\ fsRes' = "ok"
       ELSE /\ fsRes' = "error"
            /\ UNCHANGED fsFile
    /\ fsPc' = "done"
    /\ UNCHANGED <<fsTemp, fsTok, fsCtx, fsBefore, fsRdPc, fsRdRes, fsWrites>>
    /\ UNCHANGED notFs

ReadReturns(token, err) ==
    /\ fsRdRes' = [token |-> token, err |-> err]
    /\ fsRdPc' = "done"

\* Read(ctx): if err := ctx.Err(); err != nil { return "", err }
FileStoreRead(cancelled) ==
    /\ fsRdPc \in {"idle", "done"}
    /\ IF cancelled
       THEN ReadReturns(<<>>, "cancelled")
       ELSE fsRdRes' = NoReadResult /\ fsRdPc' = "stat"
    /\ UNCHANGED <<fsFile, fsTemp, fsPc, fsTok, fsCtx, fsRes, fsBefore, fsWrites>>
    /\ UNCHANGED notFs

\* a Stat that checks only that the file exists
FsReadStatNoPermCheck ==
    /\ fsRdPc = "stat"
    /\ IF ~fsFile.exists THEN ReadReturns(<<>>, "not_exist")
       ELSE fsRdPc' = "readfile" /\ UNCHANGED fsRdRes
    /\ UNCHANGED <<fsFile, fsTemp, fsPc, fsTok, fsCtx, fsRes, fsBefore, fsWrites>>
    /\ UNCHANGED notFs

\* info, err := os.Stat(f.filePath); if info.Mode().Perm() != 0600 { ... }
FsReadStat ==
    /\ fsRdPc = "stat"
    /\ IF ~fsFile.exists THEN ReadReturns(<<>>, "not_exist")
       ELSE IF fsFile.mode # "0600" THEN ReadReturns(<<>>, "insecure_permissions")
       ELSE fsRdPc' = "readfile" /\ UNCHANGED fsRdRes
    /\ UNCHANGED <<fsFile, fsTemp, fsPc, fsTok, fsCtx, fsRes, fsBefore, fsWrites>>
    /\ UNCHANGED notFs

\* what os.ReadFile, TrimSpace and the empty check make of a token file
readFile(f) ==
    IF ~f.exists THEN [token |-> <<>>, err |-> "not_exist"]
    ELSE IF TrimSpace(f.content) = <<>> THEN [token |-> <<>>, err |-> "empty_token"]
    ELSE [token |-> TrimSpace(f.content), err |-> Null]

\* what a Read that no Write overlaps returns
fileStoreRead(f) ==
    IF ~f.exists THEN [token |-> <<>>, err |-> "not_exist"]
    ELSE IF f.mode # "0600" THEN [token |-> <<>>, err |-> "insecure_permissions"]
    ELSE readFile(f)

\* data, err := os.ReadFile(f.filePath); token := strings.TrimSpace(string(data))
FsReadFile ==
    /\ fsRdPc = "readfile"
    /\ ReadReturns(readFile(fsFile).token, readFile(fsFile).err)
    /\ UNCHANGED <<fsFile, fsTemp, fsPc, fsTok, fsCtx, fsRes, fsBefore, fsWrites>>
    /\ UNCHANGED notFs

FsNext ==
    \/ \E token \in FileTokens, cancelled \in BOOLEAN : FileStoreWrite(token, cancelled)
    \/ FsCancel
    \/ \E ok \in BOOLEAN : FsCreateTemp(ok)
    \/ \E ok \in BOOLEAN : FsTempWrite(ok)
    \/ \E ok \in BOOLEAN : FsCloseTemp(ok)
    \/ \E ok \in BOOLEAN : FsRename(ok)
    \/ \E ok \in BOOLEAN : FsChmod(ok)
    \/ \E cancelled \in BOOLEAN : FileStoreRead(cancelled)
    \/ FsReadStat
    \/ FsReadFile

(***************************************************************************)
(* Properties of the file store.                                           *)
(***************************************************************************)
WriteDone == fsPc = "done"

\* a refresh token as the token endpoint issues it: not empty, no surrounding space
IsRefreshToken(t) == t # <<>> /\ TrimSpace(t) = t

\* C14: for every refresh token r, when Write(r) has returned success a following
\* Read returns r, and when Write has returned an error the contents of the
\* token file are what they were before the call.
C14_WriteAllOrNothing ==
    WriteDone /\ IsRefreshToken(fsTok) =>
        /\ fsRes = "ok" => fileStoreRead(fsFile) = [token |-> fsTok, err |-> Null]
        /\ fsRes = "error" => fsFile.content = fsBefore.content /\ fsFile.exists = fsBefore.exists

ReadStep == fsRdPc' # fsRdPc \/ fsRdRes' # fsRdRes

\* C23: Read returns the insecure-permissions error, and no token, for every
\* file whose mode is not 0600; for a file of mode 0600 it returns the
\* trimmed contents, or the empty-token error when they are empty; a Read
\* with a cancelled context returns the cancellation error at once.
C23_ReadChecksModeThenTrims ==
    [][ReadStep =>
          /\ fsRdPc \in {"idle", "done"} =>
                \/ fsRdPc' = "stat" /\ fsRdRes' = NoReadResult
                \/ fsRdPc' = "done" /\ fsRdRes' = [token |-> <<>>, err |-> "cancelled"]
          /\ (fsRdPc = "stat" /\ fsFile.exists /\ fsFile.mode # "0600") =>
                fsRdPc' = "done" /\ fsRdRes' = [token |-> <<>>, err |-> "insecure_permissions"]
          /\ (fsRdPc = "stat" /\ fsFile.exists /\ fsFile.mode = "0600") =>
                fsRdPc' = "readfile" /\ fsRdRes' = fsRdRes
          /\ fsRdPc = "readfile" =>
                /\ fsFile.exists /\ fsFile.mode = "0600"
                /\ fsRdPc' = "done"
                /\ fsRdRes' = IF TrimSpace(fsFile.content) = <<>>
                              THEN [token |-> <<>>, err |-> "empty_token"]
                              ELSE [token |-> TrimSpace(fsFile.content), err |-> Null]]_vars

\* a Read of a token file of mode 0644 has returned the insecure-permissions error
C23_Witness ==
    /\ fsRdPc = "done"
    /\ fsRdRes = [token |-> <<>>, err |-> "insecure_permissions"]
    /\ fsFile = File(<<"b", "\n">>, "0644")
    /\ fsWrites = 0

\* C24: after a successful Write(token) the token file is the token followed
\* by a single newline and has mode 0600, and while a Write runs the token
\* file holds either the complete previous contents or the complete new ones.
C24_FileIsTokenThenNewline ==
    IsRefreshToken(fsTok) =>
        /\ (WriteDone /\ fsRes = "ok") =>
               fsFile = File(fsTok \o <<"\n">>, "0600")
        /\ fsPc \notin {"idle", "done"} =>
               fsFile.content \in {fsBefore.content, fsTok \o <<"\n">>}

\* what Write leaves instead: the token without a newline after it
C24_FileIsTrimmedToken ==
    IsRefreshToken(fsTok) =>
        /\ (WriteDone /\ fsRes = "ok") => fsFile = File(fsTok, "0600")
        /\ fsPc \notin {"idle", "done"} => fsFile.content \in {fsBefore.content, fsTok}

(***************************************************************************)
(* tokensource.TokenSource: NewTokenSource builds oauth2Config.TokenSource *)
(* (ctx, initialToken), a reuse source that guards the cached token with a *)
(* mutex and refreshes it through the token endpoint when it is not valid. *)
(* Token() delegates to it.  The initial token has no access token, so it  *)
(* is not valid.                                                           *)
(***************************************************************************)
NoResult == [access |-> 0, err |-> FALSE, epoch |-> 0, expired |-> FALSE]

RsIdle ==
    /\ rsPc = [c \in Callers |-> "idle"]
    /\ rsMu = 0
    /\ rsTok = [access |-> 0, valid |-> FALSE]
    /\ rsEpoch = 0
    /\ rsLog = <<>>
    /\ rsLoc = [c \in Callers |-> NoResult]

\* initialToken := &oauth2.Token{RefreshToken: initialRefreshToken}
NewTokenSource ==
    /\ rsPc = [c \in Callers |-> "idle"]
    /\ rsMu = 0
    /\ rsTok = [access |-> 0, valid |-> FALSE]
    /\ rsEpoch = 0
    /\ rsLog = <<>>
    /\ rsLoc = [c \in Callers |-> NoResult]

RsGoto(c, pc) == rsPc' = [rsPc EXCEPT ![c] = pc]

\* a goroutine calls ts.Token()
RsToken(c) ==
    /\ rsPc[c] = "idle"
    /\ rsLoc' = [rsLoc EXCEPT ![c] = [NoResult EXCEPT !.epoch = rsEpoch,
                                                      !.expired = ~rsTok.valid]]
    /\ RsGoto(c, "lock")
    /\ UNCHANGED <<rsMu, rsTok, rsEpoch, rsLog>>
    /\ UNCHANGED notRs

\* the reuse source: s.mu.Lock()
RsLock(c) ==
    /\ rsPc[c] = "lock"
    /\ rsMu = 0
    /\ rsMu' = c
    /\ RsGoto(c, "check")
    /\ UNCHANGED <<rsTok, rsEpoch, rsLog, rsLoc>>
    /\ UNCHANGED notRs

\* a variant of the step below that refreshes whether or not the token is valid
RsCheckAlwaysRefresh(c) ==
    /\ rsPc[c] = "check"
    /\ RsGoto(c, "refresh")
    /\ UNCHANGED <<rsMu, rsTok, rsEpoch, rsLog, rsLoc>>
    /\ UNCHANGED notRs

\* the reuse source: if s.t.Valid() { return s.t, nil }
RsCheck(c) ==
    /\ rsPc[c] = "check"
    /\ IF rsTok.valid
       THEN /\ rsLoc' = [rsLoc EXCEPT ![c].access = rsTok.access]
            /\ RsGoto(c, "unlock")
       ELSE /\ RsGoto(c, "refresh")
            /\ UNCHANGED rsLoc
    /\ UNCHANGED <<rsMu, rsTok, rsEpoch, rsLog>>
    /\ UNCHANGED notRs

\* the refresh request to the token endpoint, through tokenRefreshTransport: a new
\* token that is cached, or an error that leaves the cache as it is
RsRefresh(c, ok) ==
    /\ rsPc[c] = "refresh"
    /\ Len(rsLog) < MaxRefreshReqs
    /\ rsLog' = Append(rsLog, [epoch |-> rsEpoch, ok |-> ok])
    /\ IF ok
       THEN /\ rsTok' = [access |-> Len(rsLog) + 1, valid |-> TRUE]
            /\ rsLoc' = [rsLoc EXCEPT ![c].access = Len(rsLog) + 1]
       ELSE /\ rsLoc' = [rsLoc EXCEPT ![c].err = TRUE]
            /\ UNCHANGED rsTok
    /\ RsGoto(c, "unlock")
    /\ UNCHANGED <<rsMu, rsEpoch>>
    /\ UNCHANGED notRs

\* the reuse source: defer s.mu.Unlock(); Token returns
RsUnlock(c) ==
    /\ rsPc[c] = "unlock"
    /\ rsMu' = 0
    /\ RsGoto(c, "ret")
    /\ UNCHANGED <<rsTok, rsEpoch, rsLog, rsLoc>>
    /\ UNCHANGED notRs

RsReturn(c) ==
    /\ rsPc[c] = "ret"
    /\ RsGoto(c, "idle")
    /\ UNCHANGED <<rsMu, rsTok, rsEpoch, rsLog, rsLoc>>
    /\ UNCHANGED notRs

\* time passes: the cached access token reaches its expiry
RsExpire ==
    /\ rsTok.valid
    /\ rsEpoch < MaxEpochs
    /\ rsTok' = [rsTok EXCEPT !.valid = FALSE]
    /\ rsEpoch' = rsEpoch + 1
    /\ UNCHANGED <<rsPc, rsMu, rsLog, rsLoc>>
    /\ UNCHANGED notRs

RsNext ==
    \/ \E c \in Callers : RsToken(c)
    \/ \E c \in Callers : RsLock(c)
    \/ \E c \in Callers : RsCheck(c)
    \/ \E c \in Callers, ok \in BOOLEAN : RsRefresh(c, ok)
    \/ \E c \in Callers : RsUnlock(c)
    \/ \E c \in Callers : RsReturn(c)
    \/ RsExpire

(***************************************************************************)
(* Properties of the refreshing token source.                              *)
(***************************************************************************)
RequestsIn(e) == {i \in 1..Len(rsLog) : rsLog[i].epoch = e}

SuccessesIn(e) == {i \in RequestsIn(e) : rsLog[i].ok}

\* the caller has returned from a call it made while the cached token was expired,
\* and the token has not expired again since the call started
ReturnedFromExpired(c) ==
    rsPc[c] = "ret" /\ rsLoc[c].expired /\ rsLoc[c].epoch = rsEpoch

\* C15 as stated: for the Token() calls made while the cached access token is
\* expired, exactly one refresh request is sent and all of them receive the
\* identical token.
C15_ExactlyOneRefresh ==
    \A c \in Callers :
        ReturnedFromExpired(c) =>
            /\ Cardinality(RequestsIn(rsEpoch)) = 1
            /\ ~rsLoc[c].err
            /\ \A d \in Callers :
                  ReturnedFromExpired(d) => rsLoc[d].access = rsLoc[c].access

\* C15 (amended): at most one refresh request is in flight at any time; at most one
\* refresh succeeds per expiry, after it no request is sent until the token
\* expires again, and every caller that returns a token before the next expiry
\* returns the identical, cached token; a failed refresh returns the error to its
\* caller only, and the next caller sends its own request.
C15_OneSuccessfulRefreshPerExpiry ==
    /\ Cardinality({c \in Callers : rsPc[c] \in {"check", "refresh", "unlock"}}) <= 1
    /\ \A e \in 0..MaxEpochs : Cardinality(SuccessesIn(e)) <= 1
    /\ \A e \in 0..MaxEpochs : \A i \in RequestsIn(e) : \A j \in SuccessesIn(e) : i <= j
    /\ \A c \in Callers :
          rsPc[c] = "ret" /\ ~rsLoc[c].err /\ rsLoc[c].epoch = rsEpoch
              => rsLoc[c].access = rsTok.access /\ rsTok.valid
    /\ \A c \in Callers :
          rsPc[c] = "ret" /\ rsLoc[c].err => rsLoc[c].access = 0

\* both callers called while the token was expired; one request was sent and both
\* hold access token 1
C15_Witness ==
    /\ \A c \in Callers : ReturnedFromExpired(c) /\ rsLoc[c].access = 1 /\ ~rsLoc[c].err
    /\ rsLog = <<[epoch |-> 0, ok |-> TRUE]>>

(***************************************************************************)
(* The transport chain of proxy.New: oauth2.Transport{Source: ts, Base:    *)
(* ImpersonationTransport{Base: cfg.transport}}.  Both routes use it: the  *)
(* reverse proxy of /messages forwards the client's headers, the handler   *)
(* of /chat/completions sends the request its API client builds.           *)
(***************************************************************************)
Routes == {"/messages", "/chat/completions"}

\* the headers that matter to authentication, with the client's values
ChainNames == {"Authorization", "X-Api-Key", "Content-Type", "User-Agent"}

ChainHeaders == {[n \in names |-> InboundValue(n)] : names \in SUBSET ChainNames}

NoHeaders == [n \in {} |-> <<>>]

NoToken == [access |-> 0, err |-> FALSE]

\* token.SetAuthHeader: "Bearer " + AccessToken
Bearer(access) == <<"Bearer access-" \o ToString(access)>>

ChIdle ==
    /\ chRoute = "none"
    /\ chIn = NoHeaders
    /\ chPc = "idle"
    /\ chTok = NoToken
    /\ chReq = NoHeaders
    /\ chSent = NoHeaders

\* a request arrives at a route and is given to the chain
ChInit ==
    /\ chRoute \in Routes
    /\ chIn \in ChainHeaders
    /\ chPc = "token"
    /\ chTok = NoToken
    /\ chReq = NoHeaders
    /\ chSent = NoHeaders

\* oauth2.Transport.RoundTrip: token, err := t.Source.Token(); on error return it
ChSourceToken(access, ok) ==
    /\ chPc = "token"
    /\ IF ok
       THEN /\ chTok' = [access |-> access, err |-> FALSE]
            /\ chPc' = "auth"
       ELSE /\ chTok' = [access |-> 0, err |-> TRUE]
            /\ chPc' = "failed"
    /\ UNCHANGED <<chRoute, chIn, chReq, chSent>>
    /\ UNCHANGED notCh

\* a variant of the step below that keeps an Authorization header the client sent
ChSetAuthHeaderIfAbsent ==
    /\ chPc = "auth"
    /\ chReq' = IF "Authorization" \in DOMAIN chIn
                THEN chIn
                ELSE HeaderSet(chIn, "Authorization", Bearer(chTok.access))
    /\ chPc' = "impersonate"
    /\ UNCHANGED <<chRoute, chIn, chTok, chSent>>
    /\ UNCHANGED notCh

\* oauth2.Transport.RoundTrip: req2 := cloneRequest(req); token.SetAuthHeader(req2)
ChSetAuthHeader ==
    /\ chPc = "auth"
    /\ chReq' = HeaderSet(chIn, "Authorization", Bearer(chTok.access))
    /\ chPc' = "impersonate"
    /\ UNCHANGED <<chRoute, chIn, chTok, chSent>>
    /\ UNCHANGED notCh

\* ImpersonationTransport.RoundTrip: keep the allowed headers, set the Anthropic ones
ChImpersonate ==
    /\ chPc = "impersonate"
    /\ chReq' = HeaderSet(HeaderSet(filterHeaders(chReq), "Anthropic-Beta", anthropicBetaValue),
                          "Anthropic-Version", anthropicVersionValue)
    /\ chPc' = "send"
    /\ UNCHANGED <<chRoute, chIn, chTok, chSent>>
    /\ UNCHANGED notCh

\* cfg.transport.RoundTrip: the request goes upstream
ChSend ==
    /\ chPc = "send"
    /\ chSent' = chReq
    /\ chPc' = "sent"
    /\ UNCHANGED <<chRoute, chIn, chTok, chReq>>
    /\ UNCHANGED notCh

ChNext ==
    \/ \E access \in 1..MaxAccess, ok \in BOOLEAN : ChSourceToken(access, ok)
    \/ ChSetAuthHeader
    \/ ChImpersonate
    \/ ChSend

(***************************************************************************)
(* Properties of the transport chain.                                      *)
(***************************************************************************)
ReachedUpstream == chSent # NoHeaders

\* C16: a request that reaches the upstream, by either route, carries the
\* Authorization header built from the access token the token source returned,
\* whatever Authorization or X-Api-Key header came in (the client's X-Api-Key does
\* not go upstream); when the token source returns an error nothing is sent.
C16_UpstreamAuthFromTokenSource ==
    /\ ReachedUpstream =>
          /\ ~chTok.err
          /\ chTok.access \in 1..MaxAccess
          /\ "Authorization" \in DOMAIN chSent
          /\ chSent["Authorization"] = Bearer(chTok.access)
          /\ "X-Api-Key" \notin DOMAIN chSent
    /\ chTok.err => chPc = "failed" /\ ~ReachedUpstream

C16_Witness ==
    /\ chRoute = "/messages"
    /\ ReachedUpstream
    /\ {"Authorization", "X-Api-Key"} \subseteq DOMAIN chIn
    /\ chIn["Authorization"] = <<"Bearer token123">>
    /\ chSent["Authorization"] = <<"Bearer access-2">>

(***************************************************************************)
(* The /messages route: httputil.ReverseProxy clones the inbound request   *)
(* into pr.Out, removes the forwarding headers (it does so whenever        *)
(* Rewrite is set), calls Rewrite and sends pr.Out through the transport.  *)
(***************************************************************************)
Upstreams ==
    {[scheme |-> "https", host |-> "api.anthropic.com", path |-> "/v1"],
     [scheme |-> "http", host |-> "localhost:9000", path |-> ""]}

ClientHosts == {"localhost:4000", "evil.example", "api.anthropic.com"}

ForwardingHeaders == {"Forwarded", "X-Forwarded-For", "X-Forwarded-Host", "X-Forwarded-Proto"}

NoUpstream == [scheme |-> "", host |-> "", path |-> ""]

NoProxyRequest == [scheme |-> "", urlHost |-> "", host |-> "", path |-> "", query |-> "",
                   forwarding |-> {}]

RpIdle ==
    /\ rpUp = NoUpstream
    /\ rpIn = NoProxyRequest
    /\ rpPc = "idle"
    /\ rpOut = NoProxyRequest

\* mux.Handle("POST "+upstream.Path+"/messages", ...): a request that matched the route
RpInit ==
    /\ rpUp \in Upstreams
    /\ \E host \in ClientHosts, urlHost \in {"", "evil.example"}, query \in {"", "beta=true"},
          fwd \in SUBSET ForwardingHeaders :
         rpIn = [scheme |-> IF urlHost = "" THEN "" ELSE "http", urlHost |-> urlHost,
                 host |-> host, path |-> rpUp.path \o "/messages", query |-> query,
                 forwarding |-> fwd]
    /\ rpPc = "clone"
    /\ rpOut = NoProxyRequest

\* ReverseProxy.ServeHTTP: outreq := req.Clone(ctx), forwarding headers removed
RpClone ==
    /\ rpPc = "clone"
    /\ rpOut' = [rpIn EXCEPT !.forwarding = {}]
    /\ rpPc' = "rewrite"
    /\ UNCHANGED <<rpUp, rpIn>>
    /\ UNCHANGED notRp

\* a variant of Rewrite that leaves pr.Out.Host as the client sent it
RpRewriteKeepHost ==
    /\ rpPc = "rewrite"
    /\ rpOut' = [rpOut EXCEPT !.scheme = rpUp.scheme, !.urlHost = rpUp.host]
    /\ rpPc' = "send"
    /\ UNCHANGED <<rpUp, rpIn>>
    /\ UNCHANGED notRp

\* Rewrite: pr.Out.URL.Scheme, pr.Out.URL.Host and pr.Out.Host = upstream's
RpRewrite ==
    /\ rpPc = "rewrite"
    /\ rpOut' = [rpOut EXCEPT !.scheme = rpUp.scheme, !.urlHost = rpUp.host,
                              !.host = rpUp.host]
    /\ rpPc' = "send"
    /\ UNCHANGED <<rpUp, rpIn>>
    /\ UNCHANGED notRp

\* Transport.RoundTrip(outreq)
RpSend ==
    /\ rpPc = "send"
    /\ rpPc' = "sent"
    /\ UNCHANGED <<rpUp, rpIn, rpOut>>
    /\ UNCHANGED notRp

RpNext ==
    \/ RpClone
    \/ RpRewrite
    \/ RpSend

(***************************************************************************)
(* Properties of the reverse proxy.                                        *)
(***************************************************************************)
\* C17: the outbound URL scheme, URL host and Host header of a request served by
\* the /messages reverse proxy are the configured upstream's, whatever Host header,
\* request URL and forwarding headers the client sent; path and query are the
\* inbound ones.
C17_OutboundHostIsUpstream ==
    rpPc = "sent" =>
        /\ rpOut.scheme = rpUp.scheme
        /\ rpOut.urlHost = rpUp.host
        /\ rpOut.host = rpUp.host
        /\ rpOut.path = rpIn.path
        /\ rpOut.query = rpIn.query
        /\ rpOut.forwarding = {}

C17_Witness ==
    /\ rpPc = "sent"
    /\ rpIn.host = "evil.example"
    /\ rpIn.urlHost = "evil.example"
    /\ "X-Forwarded-Host" \in rpIn.forwarding
    /\ rpOut.host = "api.anthropic.com"
    /\ rpOut.path = "/v1/messages"

(***************************************************************************)
(* Message conversion: fromChatCompletionRequestMessages turns the OpenAI  *)
(* messages into transformedMessages (dropping empty system, developer,    *)
(* user and assistant messages), merges consecutive tool messages, and     *)
(* hoistSystemPrompts splits the result into system blocks and messages.   *)
(***************************************************************************)
TextPart(t) == [type |-> "text", text |-> t]

\* an OpenAI message: content is a string or an array of parts, or absent
Message(role, kind, str, parts, calls, id) ==
    [role |-> role, kind |-> kind, str |-> str, parts |-> parts, toolCalls |-> calls,
     toolCallId |-> id]

MessageAlphabet ==
    {Message("system", "string", "", <<>>, <<>>, ""),
     Message("system", "string", "S1", <<>>, <<>>, ""),
     Message("developer", "parts", "", <<TextPart("D1"), TextPart("D2")>>, <<>>, ""),
     Message("user", "parts", "", <<TextPart("U1")>>, <<>>, ""),
     Message("assistant", "nil", "", <<>>, <<"a", "b">>, ""),
     Message("assistant", "nil", "", <<>>, <<>>, ""),
     Message("tool", "string", "", <<>>, <<>>, "a"),
     Message("tool", "string", "R", <<>>, <<>>, "b"),
     Message("function", "string", "F", <<>>, <<>>, "")}

MessageLists == UNION {[1..n -> MessageAlphabet] : n \in 0..MaxMessages}

RECURSIVE Join(_, _)
\* strings.Join
Join(texts, sep) ==
    IF texts = <<>> THEN ""
    ELSE IF Len(texts) = 1 THEN texts[1]
    ELSE texts[1] \o sep \o Join(Tail(texts), sep)

RECURSIVE PartTexts(_)
PartTexts(parts) ==
    IF parts = <<>> THEN <<>>
    ELSE IF Head(parts).type = "text"
         THEN <<Head(parts).text>> \o PartTexts(Tail(parts))
         ELSE PartTexts(Tail(parts))

\* textFromOpenAIContentParts: the text parts joined with "\n"
textFromOpenAIContentParts(parts) == Join(PartTexts(parts), "\n")

textFromOpenAIContent(msg) ==
    CASE msg.kind = "string" -> msg.str
      [] msg.kind = "parts"  -> textFromOpenAIContentParts(msg.parts)
      [] OTHER               -> ""

TextBlock(t) == [type |-> "text", id |-> "", text |-> t]
ToolUseBlock(id) == [type |-> "tool_use", id |-> id, text |-> ""]
ToolResultBlock(id, t) == [type |-> "tool_result", id |-> id, text |-> t]

RECURSIVE PartBlocks(_)
PartBlocks(parts) ==
    IF parts = <<>> THEN <<>>
    ELSE IF Head(parts).type = "text"
         THEN <<TextBlock(Head(parts).text)>> \o PartBlocks(Tail(parts))
         ELSE PartBlocks(Tail(parts))

\* fromContentParts: a text block per text part; a part without an Anthropic
\* equivalent (audio) yields no block
fromContentParts(msg) ==
    CASE msg.kind = "string" -> <<TextBlock(msg.str)>>
      [] msg.kind = "parts"  -> PartBlocks(msg.parts)
      [] OTHER               -> <<>>

\* transformedMessage: Content is a TextBlockParam or a MessageParam
TextBlockParam(role, t) ==
    [Role |-> role, Kind |-> "TextBlockParam", Text |-> t, ParamRole |-> "none", Blocks |-> <<>>]
MessageParam(role, paramRole, blocks) ==
    [Role |-> role, Kind |-> "MessageParam", Text |-> "", ParamRole |-> paramRole,
     Blocks |-> blocks]

\* the nil result that makes the caller skip the message
Skip == [Role |-> "skip", Kind |-> "nil", Text |-> "", ParamRole |-> "none", Blocks |-> <<>>]

fromChatCompletionRequestSystemMessage(msg) ==
    IF textFromOpenAIContent(msg) = "" THEN Skip
    ELSE TextBlockParam("system", textFromOpenAIContent(msg))

fromChatCompletionRequestDeveloperMessage(msg) ==
    IF textFromOpenAIContent(msg) = "" THEN Skip
    ELSE TextBlockParam("developer", textFromOpenAIContent(msg))

fromChatCompletionRequestUserMessage(msg) ==
    IF fromContentParts(msg) = <<>> THEN Skip
    ELSE MessageParam("user", "user", fromContentParts(msg))

fromChatCompletionRequestAssistantMessage(msg) ==
    LET allBlocks == fromContentParts(msg)
                     \o [i \in 1..Len(msg.toolCalls) |-> ToolUseBlock(msg.toolCalls[i])]
    IN IF allBlocks = <<>> THEN Skip ELSE MessageParam("assistant", "assistant", allBlocks)

\* a tool message is never skipped
fromChatCompletionRequestToolMessage(msg) ==
    MessageParam("tool", "user", <<ToolResultBlock(msg.toolCallId, textFromOpenAIContent(msg))>>)

SupportedRoles == {"system", "developer", "user", "assistant", "tool"}

transformOne(msg) ==
    CASE msg.role = "system"    -> fromChatCompletionRequestSystemMessage(msg)
      [] msg.role = "developer" -> fromChatCompletionRequestDeveloperMessage(msg)
      [] msg.role = "user"      -> fromChatCompletionRequestUserMessage(msg)
      [] msg.role = "assistant" -> fromChatCompletionRequestAssistantMessage(msg)
      [] OTHER                  -> fromChatCompletionRequestToolMessage(msg)

RECURSIVE transformLoop(_)
\* the loop of fromChatCompletionRequestMessages over messages of supported roles
transformLoop(messages) ==
    IF messages = <<>> THEN <<>>
    ELSE IF transformOne(Head(messages)) = Skip
         THEN transformLoop(Tail(messages))
         ELSE <<transformOne(Head(messages))>> \o transformLoop(Tail(messages))

\* flushToolBlocks
flushToolBlocks(result, accumulated) ==
    IF accumulated # <<>>
    THEN Append(result, MessageParam("tool", "user", accumulated))
    ELSE result

RECURSIVE mergeLoop(_, _, _)
mergeLoop(messages, result, accumulated) ==
    IF messages = <<>> THEN flushToolBlocks(result, accumulated)
    ELSE IF Head(messages).Role = "tool"
         THEN mergeLoop(Tail(messages), result, accumulated \o Head(messages).Blocks)
         ELSE mergeLoop(Tail(messages),
                        Append(flushToolBlocks(result, accumulated), Head(messages)), <<>>)

\* a variant that flushes after every tool message
mergeConsecutiveToolMessagesNoMerge(messages) == messages

mergeConsecutiveToolMessages(messages) == mergeLoop(messages, <<>>, <<>>)

\* the error return for a function message or an unknown role
conversionFails(messages) == \E i \in 1..Len(messages) : messages[i].role \notin SupportedRoles

fromChatCompletionRequestMessages(messages) ==
    mergeConsecutiveToolMessages(transformLoop(messages))

IsSystemRole(m) == m.Role \in {"system", "developer"} /\ m.Kind = "TextBlockParam"
IsMessageRole(m) == m.Role \in {"user", "assistant", "tool"} /\ m.Kind = "MessageParam"

\* a variant of hoistSystemPrompts that leaves the tool messages out
hoistSystemPromptsNoTool(transformed) ==
    [system |-> SelectSeq(transformed, IsSystemRole),
     messages |-> SelectSeq(transformed, LAMBDA m : IsMessageRole(m) /\ m.Role # "tool")]

hoistSystemPrompts(transformed) ==
    [system |-> SelectSeq(transformed, IsSystemRole),
     messages |-> SelectSeq(transformed, IsMessageRole)]

CvIdle ==
    /\ cvIn = <<>>
    /\ cvPc = "idle"
    /\ cvTransformed = <<>>
    /\ cvErr = FALSE
    /\ cvSystem = <<>>
    /\ cvMessages = <<>>

CvInit ==
    /\ cvIn \in MessageLists
    /\ cvPc = "transform"
    /\ cvTransformed = <<>>
    /\ cvErr = FALSE
    /\ cvSystem = <<>>
    /\ cvMessages = <<>>

\* transformed, err := fromChatCompletionRequestMessages(clientReq.Messages)
CvTransform ==
    /\ cvPc = "transform"
    /\ IF conversionFails(cvIn)
       THEN /\ cvErr' = TRUE
            /\ cvPc' = "failed"
            /\ UNCHANGED cvTransformed
       ELSE /\ cvTransformed' = fromChatCompletionRequestMessages(cvIn)
            /\ cvPc' = "hoist"
            /\ UNCHANGED cvErr
    /\ UNCHANGED <<cvIn, cvSystem, cvMessages>>
    /\ UNCHANGED notCv

\* systemPrompts, messages := hoistSystemPrompts(transformed)
CvHoist ==
    /\ cvPc = "hoist"
    /\ cvSystem' = hoistSystemPrompts(cvTransformed).system
    /\ cvMessages' = hoistSystemPrompts(cvTransformed).messages
    /\ cvPc' = "done"
    /\ UNCHANGED <<cvIn, cvTransformed, cvErr>>
    /\ UNCHANGED notCv

CvNext ==
    \/ CvTransform
    \/ CvHoist

\* ---- properties of the merge step
Converted == cvPc \in {"hoist", "done"}

\* the input messages the conversion keeps (those it does not skip as empty)
KeptInput == SelectSeq(cvIn, LAMBDA m : transformOne(m) # Skip)

RECURSIVE ToolRuns(_, _)
\* the maximal runs of consecutive tool messages, each as its tool_call_ids
ToolRuns(messages, run) ==
    LET closed == IF run = <<>> THEN <<>> ELSE <<run>>
    IN IF messages = <<>> THEN closed
       ELSE IF Head(messages).role = "tool"
            THEN ToolRuns(Tail(messages), Append(run, Head(messages).toolCallId))
            ELSE closed \o ToolRuns(Tail(messages), <<>>)

BlockIds(m) == [i \in 1..Len(m.Blocks) |-> m.Blocks[i].id]

\* the tool_call_ids of each converted tool message, in order
ConvertedToolIds ==
    LET tools == SelectSeq(cvTransformed, LAMBDA m : m.Role = "tool")
    IN [i \in 1..Len(tools) |-> BlockIds(tools[i])]

ToolMessagesWellFormed ==
    \A i \in 1..Len(cvTransformed) :
        cvTransformed[i].Role = "tool" =>
            /\ cvTransformed[i].Kind = "MessageParam"
            /\ cvTransformed[i].ParamRole = "user"
            /\ \A j \in 1..Len(cvTransformed[i].Blocks) :
                   cvTransformed[i].Blocks[j].type = "tool_result"

\* C18 as stated: every maximal run of consecutive tool messages of the input
\* becomes exactly one user-role message holding one tool_result per tool
\* message of the run, in order and with the original tool_call_id.
C18_RunsOfInputMerged ==
    Converted => /\ ConvertedToolIds = ToolRuns(cvIn, <<>>)
                 /\ ToolMessagesWellFormed

\* C18: the runs are those of the list that is left once the empty system,
\* developer, user and assistant messages are dropped; each such run becomes
\* exactly one user-role message holding one tool_result per tool message,
\* in order and with the original tool_call_id, and no tool message is dropped.
C18_RunsOfKeptMerged ==
    Converted => /\ ConvertedToolIds = ToolRuns(KeptInput, <<>>)
                 /\ ToolMessagesWellFormed
                 /\ \A i \in 1..(Len(cvTransformed) - 1) :
                        ~(cvTransformed[i].Role = "tool" /\ cvTransformed[i + 1].Role = "tool")

\* user, assistant(tool_calls a, b), tool a (empty content), tool b, assistant
C18_Witness ==
    /\ cvPc = "done"
    /\ Len(cvIn) = 5
    /\ [i \in 1..5 |-> cvIn[i].role] = <<"user", "assistant", "tool", "tool", "assistant">>
    /\ Len(cvMessages) = 4
    /\ cvMessages[3].ParamRole = "user"
    /\ BlockIds(cvMessages[3]) = <<"a", "b">>
    /\ cvMessages[3].Blocks[1].text = ""

\* ---- properties of hoisting
Hoisted == cvPc = "done"

InputText(m) == textFromOpenAIContent(m)

\* the texts of the non-empty system and developer messages of the input
SystemTextsOfInput ==
    LET kept == SelectSeq(cvIn, LAMBDA m : m.role \in {"system", "developer"} /\ InputText(m) # "")
    IN [i \in 1..Len(kept) |-> InputText(kept[i])]

\* the user and assistant messages of the input that are kept, converted
ConversationOfInput ==
    LET kept == SelectSeq(KeptInput, LAMBDA m : m.role \in {"user", "assistant"})
    IN [i \in 1..Len(kept) |-> transformOne(kept[i])]

\* the tool_call_ids of the tool messages of the input
ToolIdsOfInput ==
    LET tools == SelectSeq(cvIn, LAMBDA m : m.role = "tool")
    IN [i \in 1..Len(tools) |-> tools[i].toolCallId]

RECURSIVE Flatten(_)
Flatten(seqs) == IF seqs = <<>> THEN <<>> ELSE Head(seqs) \o Flatten(Tail(seqs))

RECURSIVE CollapseTools(_)
\* a sequence of roles with every run of "tool" reduced to one "tool"
CollapseTools(roles) ==
    IF Len(roles) < 2 THEN roles
    ELSE IF roles[1] = "tool" /\ roles[2] = "tool"
         THEN CollapseTools(Tail(roles))
         ELSE <<roles[1]>> \o CollapseTools(Tail(roles))

RolesOfInputConversation ==
    LET kept == SelectSeq(KeptInput, LAMBDA m : m.role \in {"user", "assistant", "tool"})
    IN [i \in 1..Len(kept) |-> kept[i].role]

RolesOfMessages == [i \in 1..Len(cvMessages) |-> cvMessages[i].Role]

\* C19: after hoisting, system holds the text blocks of all non-empty system
\* and developer messages in their original order, messages holds all the
\* remaining kept user, assistant and merged tool messages in their original
\* order, no message is in both and none of the kept messages is lost.
C19_HoistPartitionsInOrder ==
    Hoisted =>
        /\ [i \in 1..Len(cvSystem) |-> cvSystem[i].Text] = SystemTextsOfInput
        /\ \A i \in 1..Len(cvSystem) : cvSystem[i].Kind = "TextBlockParam"
        /\ \A i \in 1..Len(cvMessages) : cvMessages[i].Kind = "MessageParam"
        /\ SelectSeq(cvMessages, LAMBDA m : m.Role # "tool") = ConversationOfInput
        /\ Flatten([i \in 1..Len(cvMessages) |->
                       IF cvMessages[i].Role = "tool" THEN BlockIds(cvMessages[i]) ELSE <<>>])
              = ToolIdsOfInput
        /\ CollapseTools(RolesOfMessages) = CollapseTools(RolesOfInputConversation)
        /\ Len(cvSystem) + Len(cvMessages) = Len(cvTransformed)

\* system "", system S1, developer D1+D2, and a conversation with a merged
\* tool message: both outputs are non-empty and an empty message was dropped
C19_Witness ==
    /\ Hoisted
    /\ Len(cvIn) = MaxMessages
    /\ Len(KeptInput) < Len(cvIn)
    /\ Len(cvSystem) = 2
    /\ cvSystem[2].Text = "D1\nD2"
    /\ \E i \in 1..Len(cvMessages) : cvMessages[i].Role = "tool" /\ Len(cvMessages[i].Blocks) = 2

(***************************************************************************)
(* Recovery: next.ServeHTTP runs under a deferred function that recovers a *)
(* panic and calls http.Error(w, "Internal Server Error", 500).  The       *)
(* ResponseWriter keeps the first status code written: a later WriteHeader *)
(* is superfluous, and a Write before any WriteHeader writes status 200.   *)
(***************************************************************************)
StatusInternalServerError == 500

HandlerStatuses == {200, 404}
HandlerChunks == {"c1", "c2"}
PanicValues == {"error", "ErrAbortHandler"}
ErrorText == "Internal Server Error\n"

\* ResponseWriter.WriteHeader: only the first call sets the status
WriteHeader(status, code) == IF status = 0 THEN code ELSE status

\* http.Error: WriteHeader(code), then the text as a body chunk
httpError(status, body, text, code) ==
    [status |-> WriteHeader(status, code), body |-> Append(body, text)]

RcIdle ==
    /\ rcPc = "idle"
    /\ rcStatus = 0
    /\ rcBody = <<>>
    /\ rcPanic = Null
    /\ rcEscaped = FALSE
    /\ rcAtPanic = -1

\* the wrapped handler is entered with nothing written
RcInit ==
    /\ rcPc = "handler"
    /\ rcStatus = 0
    /\ rcBody = <<>>
    /\ rcPanic = Null
    /\ rcEscaped = FALSE
    /\ rcAtPanic = -1

\* the handler calls w.WriteHeader(code)
RcWriteHeader(code) ==
    /\ rcPc = "handler"
    /\ rcStatus' = WriteHeader(rcStatus, code)
    /\ UNCHANGED <<rcPc, rcBody, rcPanic, rcEscaped, rcAtPanic>>
    /\ UNCHANGED notRc

\* the handler calls w.Write(chunk)
RcWrite(chunk) ==
    /\ rcPc = "handler"
    /\ Len(rcBody) < MaxChunks
    /\ rcStatus' = WriteHeader(rcStatus, 200)
    /\ rcBody' = Append(rcBody, chunk)
    /\ UNCHANGED <<rcPc, rcPanic, rcEscaped, rcAtPanic>>
    /\ UNCHANGED notRc

\* the handler panics with value v
RcHandlerPanic(v) ==
    /\ rcPc = "handler"
    /\ rcPanic' = v
    /\ rcAtPanic' = rcStatus
    /\ rcPc' = "deferred"
    /\ UNCHANGED <<rcStatus, rcBody, rcEscaped>>
    /\ UNCHANGED notRc

\* the handler returns
RcHandlerReturn ==
    /\ rcPc = "handler"
    /\ rcPc' = "deferred"
    /\ UNCHANGED <<rcStatus, rcBody, rcPanic, rcEscaped, rcAtPanic>>
    /\ UNCHANGED notRc

\* a deferred function that lets http.ErrAbortHandler pass
RcDeferredRepanicAbort ==
    /\ rcPc = "deferred"
    /\ IF rcPanic # Null /\ rcPanic # "ErrAbortHandler"
       THEN /\ rcStatus' = httpError(rcStatus, rcBody, ErrorText, StatusInternalServerError).status
            /\ rcBody' = httpError(rcStatus, rcBody, ErrorText, StatusInternalServerError).body
            /\ rcPanic' = Null
            /\ UNCHANGED rcEscaped
       ELSE /\ rcEscaped' = (rcPanic # Null)
            /\ UNCHANGED <<rcStatus, rcBody, rcPanic>>
    /\ rcPc' = "done"
    /\ UNCHANGED rcAtPanic
    /\ UNCHANGED notRc

\* the deferred function: if recover() != nil { http.Error(w, ..., 500) }
RcDeferred ==
    /\ rcPc = "deferred"
    /\ IF rcPanic # Null
       THEN /\ rcStatus' = httpError(rcStatus, rcBody, ErrorText, StatusInternalServerError).status
            /\ rcBody' = httpError(rcStatus, rcBody, ErrorText, StatusInternalServerError).body
            /\ rcPanic' = Null
       ELSE UNCHANGED <<rcStatus, rcBody, rcPanic>>
    /\ rcPc' = "done"
    /\ UNCHANGED <<rcEscaped, rcAtPanic>>
    /\ UNCHANGED notRc

RcNext ==
    \/ \E code \in HandlerStatuses : RcWriteHeader(code)
    \/ \E chunk \in HandlerChunks : RcWrite(chunk)
    \/ \E v \in PanicValues : RcHandlerPanic(v)
    \/ RcHandlerReturn
    \/ RcDeferred

\* ---- properties of Recovery
Recovered == rcPc = "done" /\ rcAtPanic # -1

\* C20 as stated: whenever the handler panics, also after it wrote the
\* response header or part of the body, the panic does not leave the
\* middleware and the response has status 500.
C20_PanicAlways500 ==
    Recovered => /\ ~rcEscaped
                 /\ rcPanic = Null
                 /\ rcStatus = StatusInternalServerError

\* C20: whenever the handler panics, the panic does not leave the middleware;
\* the response has status 500 exactly when the handler had written no
\* response header and no body before it panicked; otherwise the response
\* keeps the status already written; in both cases the 500 text is the last
\* chunk of the body.
C20_PanicRecoveredStatusKept ==
    Recovered => /\ ~rcEscaped
                 /\ rcPanic = Null
                 /\ (rcAtPanic = 0 => rcStatus = StatusInternalServerError)
                 /\ (rcAtPanic # 0 => rcStatus = rcAtPanic)
                 /\ rcBody # <<>>
                 /\ rcBody[Len(rcBody)] = ErrorText

\* a handler that streamed a chunk and panicked: the client keeps status 200
C20_Witness ==
    /\ Recovered
    /\ rcAtPanic = 200
    /\ rcStatus = 200
    /\ Len(rcBody) >= 2

\* a handler that panicked before writing anything: the client gets 500
C20_WitnessBeforeHeader ==
    /\ Recovered
    /\ rcAtPanic = 0
    /\ rcStatus = StatusInternalServerError

(***************************************************************************)
(* Middleware composition: New registers each route with                   *)
(* applyMiddlewares(handler, middleware.Logging(logger), Recovery); the    *)
(* first middleware of the slice is the outermost.  A handler is modelled  *)
(* as the sequence of the functions a request enters, outermost first.     *)
(***************************************************************************)
MessagesRoute == "/messages"
ChatCompletionsRoute == "/chat/completions"
MuxRoutes == {MessagesRoute, ChatCompletionsRoute}

RECURSIVE applyFrom(_, _, _)
\* for i := len(middlewares) - 1; i >= 0; i-- { h = middlewares[i](h) }
applyFrom(h, middlewares, i) ==
    IF i < 1 THEN h ELSE applyFrom(<<middlewares[i]>> \o h, middlewares, i - 1)

applyMiddlewares(h, middlewares) == applyFrom(h, middlewares, Len(middlewares))

\* the handler registered for a route by New
RouteHandler(route) ==
    IF route = MessagesRoute
    THEN applyMiddlewares(<<"reverseProxyHandler">>, <<"Logging", "Recovery">>)
    ELSE applyMiddlewares(<<"createChatCompletionsHandler">>, <<"Logging", "Recovery">>)

MwIdle ==
    /\ mwRoute = "none"
    /\ mwChain = <<>>
    /\ mwDepth = 0
    /\ mwTrace = <<>>
    /\ mwStatus = 0
    /\ mwBody = <<>>
    /\ mwPanic = Null
    /\ mwLogged = [seen |-> FALSE, status |-> 0, panic |-> Null]
    /\ mwPc = "idle"

\* the mux matched a request to one of the two routes
MwInit ==
    /\ mwRoute \in MuxRoutes
    /\ mwChain = RouteHandler(mwRoute)
    /\ mwDepth = 0
    /\ mwTrace = <<>>
    /\ mwStatus = 0
    /\ mwBody = <<>>
    /\ mwPanic = Null
    /\ mwLogged = [seen |-> FALSE, status |-> 0, panic |-> Null]
    /\ mwPc = "entering"

\* ServeHTTP of the next element of the chain is called
MwEnter ==
    /\ mwPc = "entering"
    /\ mwDepth' = mwDepth + 1
    /\ mwTrace' = Append(mwTrace, mwChain[mwDepth + 1])
    /\ mwPc' = IF mwDepth + 1 = Len(mwChain) THEN "handler" ELSE "entering"
    /\ UNCHANGED <<mwRoute, mwChain, mwStatus, mwBody, mwPanic, mwLogged>>
    /\ UNCHANGED notMw

\* the route's handler calls w.WriteHeader(code)
MwHandlerWriteHeader(code) ==
    /\ mwPc = "handler"
    /\ mwStatus' = WriteHeader(mwStatus, code)
    /\ UNCHANGED <<mwRoute, mwChain, mwDepth, mwTrace, mwBody, mwPanic, mwLogged, mwPc>>
    /\ UNCHANGED notMw

\* the route's handler calls w.Write(chunk)
MwHandlerWrite(chunk) ==
    /\ mwPc = "handler"
    /\ Len(mwBody) < MaxChunks
    /\ mwStatus' = WriteHeader(mwStatus, 200)
    /\ mwBody' = Append(mwBody, chunk)
    /\ UNCHANGED <<mwRoute, mwChain, mwDepth, mwTrace, mwPanic, mwLogged, mwPc>>
    /\ UNCHANGED notMw

\* the route's handler returns, or panics with value v
MwHandlerExit(v) ==
    /\ mwPc = "handler"
    /\ mwPanic' = v
    /\ mwDepth' = mwDepth - 1
    /\ mwPc' = "unwinding"
    /\ UNCHANGED <<mwRoute, mwChain, mwTrace, mwStatus, mwBody, mwLogged>>
    /\ UNCHANGED notMw

\* Recovery's deferred function runs as the call returns through it
MwLeaveRecovery ==
    /\ mwPc = "unwinding"
    /\ mwDepth >= 1
    /\ mwChain[mwDepth] = "Recovery"
    /\ IF mwPanic # Null
       THEN /\ mwStatus' = httpError(mwStatus, mwBody, ErrorText, StatusInternalServerError).status
            /\ mwBody' = httpError(mwStatus, mwBody, ErrorText, StatusInternalServerError).body
            /\ mwPanic' = Null
       ELSE UNCHANGED <<mwStatus, mwBody, mwPanic>>
    /\ mwDepth' = mwDepth - 1
    /\ mwPc' = IF mwDepth = 1 THEN "done" ELSE "unwinding"
    /\ UNCHANGED <<mwRoute, mwChain, mwTrace, mwLogged>>
    /\ UNCHANGED notMw

\* Logging records the request as the call returns through it; with
\* RecoverPanics false a panic it sees is logged and raised again
MwLeaveLogging ==
    /\ mwPc = "unwinding"
    /\ mwDepth >= 1
    /\ mwChain[mwDepth] = "Logging"
    /\ mwLogged' = [seen |-> TRUE, status |-> mwStatus, panic |-> mwPanic]
    /\ mwDepth' = mwDepth - 1
    /\ mwPc' = IF mwDepth = 1 THEN "done" ELSE "unwinding"
    /\ UNCHANGED <<mwRoute, mwChain, mwTrace, mwStatus, mwBody, mwPanic>>
    /\ UNCHANGED notMw

MwNext ==
    \/ MwEnter
    \/ \E code \in HandlerStatuses : MwHandlerWriteHeader(code)
    \/ \E chunk \in HandlerChunks : MwHandlerWrite(chunk)
    \/ \E v \in PanicValues \cup {Null} : MwHandlerExit(v)
    \/ MwLeaveRecovery
    \/ MwLeaveLogging

\* ---- properties of the middleware composition
\* C21: on both routes a request enters Recovery first, then Logging, then
\* the handler.
C21_RecoveryOutermost ==
    mwPc \notin {"idle", "entering"} =>
        /\ Len(mwTrace) = 3
        /\ mwTrace[1] = "Recovery"
        /\ mwTrace[2] = "Logging"
        /\ mwTrace[3] \in {"reverseProxyHandler", "createChatCompletionsHandler"}

\* what the composition does instead: Logging is entered first, Recovery
\* inside it, so Logging never sees a panic of the handler
C21_LoggingOutermost ==
    mwPc \notin {"idle", "entering"} =>
        /\ mwTrace[1] = "Logging"
        /\ mwTrace[2] = "Recovery"
        /\ (mwLogged.seen => mwLogged.panic = Null)

(***************************************************************************)
(* CreateChatCompletionsHandler.ServeHTTP: decode the body, then           *)
(* writeResponse or streamResponse.  Every error of ProcessRequest and     *)
(* ProcessStreamingRequest is answered with writeJSONError(..., 500);      *)
(* only a body that does not decode is answered with status 400.           *)
(***************************************************************************)
StatusOK == 200
StatusBadRequest == 400

MessagesKinds == {"ok", "empty", "function", "badargs"}

ChatRequests ==
    [decodable : BOOLEAN, stream : BOOLEAN, model : {"", "claude"},
     messages : MessagesKinds, upstream : {"ok", "fail"}]

NoResponse == [status |-> 0, contentType |-> "", body |-> [kind |-> "none", error |-> ""]]

\* writeJSON: Content-Type application/json, WriteHeader(status), encode data
writeJSON(resp, data, status) ==
    [status |-> WriteHeader(resp.status, status), contentType |-> "application/json",
     body |-> data]

\* ErrorResponse{Error: message} encodes as {"error": "<message>"}
ErrorResponse(message) == [kind |-> "error-string", error |-> message]

writeJSONError(resp, message, status) == writeJSON(resp, ErrorResponse(message), status)

\* validateRequest
validateRequest(req) ==
    IF req.model = "" THEN "model is required"
    ELSE IF req.messages = "empty" THEN "messages array cannot be empty"
    ELSE "nil"

\* the error of fromChatCompletionRequestMessages as wrapped by callProviderAPI
transformMessages(req) ==
    IF req.messages \in {"function", "badargs"} THEN "transform messages" ELSE "nil"

\* ProcessRequest: validateRequest, callProviderAPI (transform, then the
\* upstream call), transformResponse
ProcessRequest(req) ==
    IF validateRequest(req) # "nil" THEN validateRequest(req)
    ELSE IF transformMessages(req) # "nil" THEN transformMessages(req)
    ELSE IF req.upstream = "fail" THEN "upstream error"
    ELSE "nil"

\* ProcessStreamingRequest: validateRequest, callProviderAPIStreaming; the
\* upstream call is made lazily and its error is yielded by the iterator
ProcessStreamingRequest(req) ==
    IF validateRequest(req) # "nil" THEN validateRequest(req)
    ELSE transformMessages(req)

CcIdle ==
    /\ ccReq = [decodable |-> TRUE, stream |-> FALSE, model |-> "", messages |-> "ok",
                upstream |-> "ok"]
    /\ ccPc = "idle"
    /\ ccCancelled = FALSE
    /\ ccResp = NoResponse

CcInit ==
    /\ ccReq \in ChatRequests
    /\ ccPc = "decode"
    /\ ccCancelled = FALSE
    /\ ccResp = NoResponse

\* the client goes away
CcCancel ==
    /\ ccPc \notin {"idle", "done"}
    /\ ~ccCancelled
    /\ ccCancelled' = TRUE
    /\ UNCHANGED <<ccReq, ccPc, ccResp>>
    /\ UNCHANGED notCc

\* ServeHTTP: json.NewDecoder(r.Body).Decode(&req)
CcDecode ==
    /\ ccPc = "decode"
    /\ IF ~ccReq.decodable
       THEN /\ ccResp' = writeJSONError(ccResp, "invalid request body", StatusBadRequest)
            /\ ccPc' = "done"
       ELSE /\ ccPc' = IF ccReq.stream THEN "stream" ELSE "write"
            /\ UNCHANGED ccResp
    /\ UNCHANGED <<ccReq, ccCancelled>>
    /\ UNCHANGED notCc

\* writeResponse
CcWriteResponse ==
    /\ ccPc = "write"
    /\ IF ccCancelled THEN UNCHANGED ccResp
       ELSE IF ProcessRequest(ccReq) # "nil"
       THEN ccResp' = writeJSONError(ccResp, "Internal Server Error", StatusInternalServerError)
       ELSE ccResp' = writeJSON(ccResp, [kind |-> "completion", error |-> ""], StatusOK)
    /\ ccPc' = "done"
    /\ UNCHANGED <<ccReq, ccCancelled>>
    /\ UNCHANGED notCc

\* streamResponse up to NewSSEWriter
CcStreamResponse ==
    /\ ccPc = "stream"
    /\ IF ccCancelled
       THEN /\ ccPc' = "done"
            /\ UNCHANGED ccResp
       ELSE IF ProcessStreamingRequest(ccReq) # "nil"
       THEN /\ ccResp' = writeJSONError(ccResp, "Internal Server Error",
                                        StatusInternalServerError)
            /\ ccPc' = "done"
       ELSE /\ ccResp' = [ccResp EXCEPT !.contentType = "text/event-stream;charset=utf-8"]
            /\ ccPc' = "streaming"
    /\ UNCHANGED <<ccReq, ccCancelled>>
    /\ UNCHANGED notCc

\* streamResponse: the first element the iterator yields
CcStreamFirst ==
    /\ ccPc = "streaming"
    /\ IF ccCancelled THEN UNCHANGED ccResp
       ELSE IF ccReq.upstream = "fail"
       THEN ccResp' = [ccResp EXCEPT !.status = WriteHeader(ccResp.status, StatusOK),
                                     !.body = [kind |-> "sse-error-object",
                                               error |-> "upstream error"]]
       ELSE ccResp' = [ccResp EXCEPT !.status = WriteHeader(ccResp.status, StatusOK),
                                     !.body = [kind |-> "sse-chunk", error |-> ""]]
    /\ ccPc' = "done"
    /\ UNCHANGED <<ccReq, ccCancelled>>
    /\ UNCHANGED notCc

CcNext ==
    \/ CcCancel
    \/ CcDecode
    \/ CcWriteResponse
    \/ CcStreamResponse
    \/ CcStreamFirst

\* ---- properties of the chat-completions error answers
ClientCaused(req) ==
    \/ ~req.decodable
    \/ req.model = ""
    \/ req.messages \in {"empty", "function", "badargs"}

RequestFails(req) == ClientCaused(req) \/ req.upstream = "fail"

\* C22: a request that fails before any response byte is written is answered
\* with a JSON body {"error": {...}} and status 400 when the client caused
\* the failure, 500 otherwise, on the streaming and the non-streaming path.
C22_ErrorStatusByCause ==
    (ccPc = "done" /\ ~ccCancelled /\ RequestFails(ccReq)) =>
        /\ ccResp.contentType = "application/json"
        /\ ccResp.body.kind = "error-object"
        /\ ccResp.status = IF ClientCaused(ccReq) THEN StatusBadRequest
                           ELSE StatusInternalServerError

\* what the handler answers instead: 400 only for a body that does not
\* decode, 500 for every other failure found before streaming starts, in
\* both cases with {"error": "<text>"}; an upstream failure of a streaming
\* request is answered with status 200 and an SSE error event
C22_Only400ForUndecodable ==
    (ccPc = "done" /\ ~ccCancelled /\ RequestFails(ccReq)) =>
        IF ~ccReq.decodable
        THEN ccResp.status = StatusBadRequest /\ ccResp.body.kind = "error-string"
        ELSE IF ccReq.stream /\ ProcessStreamingRequest(ccReq) = "nil"
        THEN ccResp.status = StatusOK /\ ccResp.body.kind = "sse-error-object"
        ELSE ccResp.status = StatusInternalServerError /\ ccResp.body.kind = "error-string"

(***************************************************************************)
(* app.New: cfg.Validate(), then newTokenSource(cfg.Auth) (the token store *)
(* of the configured backend and the factory of the configured method),    *)
(* then proxy.New.                                                         *)
(***************************************************************************)
AuthenticationMethodStatic == "static"
AuthenticationMethodOAuth == "oauth"
TokenStorageTypes == {"file", "env", "keyring"}

Configs ==
    [method : {AuthenticationMethodStatic, AuthenticationMethodOAuth, "other"},
     storage : TokenStorageTypes \cup {"other"},
     file : {"", "auth"}, envKey : {"", "KEY"}, keyringUser : {"", "user"}]

\* validator.New().Struct(c): the oneof tags of Auth.Storage and Auth.Method
StructTagsValid(cfg) ==
    /\ cfg.storage \in TokenStorageTypes
    /\ cfg.method \in {AuthenticationMethodOAuth, AuthenticationMethodStatic}

\* Config.Validate
Validate(cfg) ==
    IF ~StructTagsValid(cfg) THEN "validation failed"
    ELSE IF cfg.method = AuthenticationMethodOAuth /\ cfg.storage = "env"
    THEN "oauth authentication requires writable storage, env is read-only"
    ELSE IF cfg.storage = "file" /\ cfg.file = "" THEN "file path required for file storage"
    ELSE IF cfg.storage = "env" /\ cfg.envKey = "" THEN "env_key required for env storage"
    ELSE IF cfg.storage = "keyring" /\ cfg.keyringUser = ""
    THEN "keyring_user required for keyring storage"
    ELSE "nil"

\* AuthConfig.NewTokenStore with NewFileStore, NewEnvStore, NewKeyringStore
NewTokenStore(cfg, envSet, mkdirOk) ==
    CASE cfg.storage = "file" ->
            IF cfg.file = "" THEN "file path cannot be empty"
            ELSE IF ~mkdirOk THEN "mkdir failed" ELSE "nil"
      [] cfg.storage = "env" ->
            IF cfg.envKey = "" THEN "environment key cannot be empty"
            ELSE IF ~envSet THEN "environment variable not set" ELSE "nil"
      [] cfg.storage = "keyring" ->
            IF cfg.keyringUser = "" THEN "user cannot be empty" ELSE "nil"
      [] OTHER -> "unsupported storage type"

\* the switch on cfg.Method in newTokenSource
FactoryFor(method) ==
    IF method = AuthenticationMethodOAuth THEN "oauth" ELSE "none"

NoSource == [factory |-> "none", store |-> "none"]

ApIdle ==
    /\ apCfg = [method |-> "other", storage |-> "other", file |-> "", envKey |-> "",
                keyringUser |-> ""]
    /\ apEnv = FALSE
    /\ apPc = "idle"
    /\ apErr = Null
    /\ apSource = NoSource

ApInit ==
    /\ apCfg \in Configs
    /\ apEnv \in BOOLEAN
    /\ apPc = "validate"
    /\ apErr = Null
    /\ apSource = NoSource

\* if err := cfg.Validate(); err != nil { return nil, ... }
ApValidate ==
    /\ apPc = "validate"
    /\ IF Validate(apCfg) # "nil"
       THEN apErr' = "invalid configuration" /\ apPc' = "done"
       ELSE apPc' = "store" /\ UNCHANGED apErr
    /\ UNCHANGED <<apCfg, apEnv, apSource>>
    /\ UNCHANGED notAp

\* newTokenSource: store, err := cfg.NewTokenStore()
ApNewTokenStore(mkdirOk) ==
    /\ apPc = "store"
    /\ IF NewTokenStore(apCfg, apEnv, mkdirOk) # "nil"
       THEN /\ apErr' = "failed to create token source"
            /\ apPc' = "done"
            /\ UNCHANGED apSource
       ELSE /\ apSource' = [apSource EXCEPT !.store = apCfg.storage]
            /\ apPc' = "source"
            /\ UNCHANGED apErr
    /\ UNCHANGED <<apCfg, apEnv>>
    /\ UNCHANGED notAp

\* newTokenSource: switch cfg.Method { case AuthenticationMethodOAuth: ...
\* default: return nil, "unsupported authentication method" }
ApNewTokenSource ==
    /\ apPc = "source"
    /\ IF FactoryFor(apCfg.method) = "none"
       THEN /\ apErr' = "failed to create token source"
            /\ apPc' = "done"
            /\ UNCHANGED apSource
       ELSE /\ apSource' = [apSource EXCEPT !.factory = FactoryFor(apCfg.method)]
            /\ apPc' = "proxy"
            /\ UNCHANGED apErr
    /\ UNCHANGED <<apCfg, apEnv>>
    /\ UNCHANGED notAp

\* proxy.New(tokenSource, proxy.WithBaseURL(cfg.Upstream.BaseURL))
ApNewProxy ==
    /\ apPc = "proxy"
    /\ apPc' = "done"
    /\ UNCHANGED <<apCfg, apEnv, apErr, apSource>>
    /\ UNCHANGED notAp

ApNext ==
    \/ ApValidate
    \/ \E mkdirOk \in BOOLEAN : ApNewTokenStore(mkdirOk)
    \/ ApNewTokenSource
    \/ ApNewProxy

\* ---- properties of the application construction
StorageConfigured(cfg) ==
    \/ cfg.storage = "file" /\ cfg.file # ""
    \/ cfg.storage = "env" /\ cfg.envKey # ""
    \/ cfg.storage = "keyring" /\ cfg.keyringUser # ""

\* C25: a configuration with method static passes validation with every
\* storage backend, the read-only env backend included, and New builds a
\* token source from it: unless the store cannot be created, New does not fail.
C25_StaticConstructs ==
    (apCfg.method = AuthenticationMethodStatic /\ StorageConfigured(apCfg)) =>
        /\ apPc \notin {"idle", "validate"} => apPc # "done" \/ apErr # "invalid configuration"
        /\ apPc = "done" =>
              \/ apErr = Null /\ apSource.factory # "none"
              \/ apSource.store = "none"

\* what New does instead: static passes validation and never constructs
C25_StaticNeverConstructs ==
    (apCfg.method = AuthenticationMethodStatic /\ StorageConfigured(apCfg)) =>
        /\ Validate(apCfg) = "nil"
        /\ apPc = "done" => apErr = "failed to create token source"

(***************************************************************************)
(* App.Start: Proxy.Start serves in a goroutine that reports a runtime     *)
(* error on a channel; an errgroup goroutine waits for that error or for   *)
(* the context; after g.Wait() the shutdown functions run, in reverse      *)
(* order, under context.WithTimeout(Background, cfg.Shutdown.Timeout).     *)
(* http.Server.Shutdown returns nil once no request is in flight and the   *)
(* context's error when the deadline passes first.                         *)
(***************************************************************************)
\* shutdownFuncs after the startup phase
shutdownFuncs == <<"proxy.Shutdown">>

\* a result that reports only the runtime error
startResultRuntimeOnly(runtimeErr, shutdownErr) ==
    IF runtimeErr THEN "error" ELSE "nil"

\* if len(errs) > 0 { return errors.Join(errs...) }; return nil
startResult(runtimeErr, shutdownErr) ==
    IF runtimeErr \/ shutdownErr THEN "error" ELSE "nil"

StIdle ==
    /\ stPc = "idle"
    /\ stCtx = FALSE
    /\ stErrCh = "empty"
    /\ stTimeout = 1
    /\ stInflight = 0
    /\ stElapsed = 0
    /\ stDeadline = 0
    /\ stCalls = 0
    /\ stRuntimeErr = FALSE
    /\ stShutdownErr = FALSE
    /\ stClosed = FALSE
    /\ stKilled = 0
    /\ stResult = Null

\* Proxy.Start has returned the error channel and the server is serving
StInit ==
    /\ stPc = "running"
    /\ stCtx = FALSE
    /\ stErrCh = "empty"
    /\ stTimeout \in 1..MaxTimeout
    /\ stInflight = 0
    /\ stElapsed = 0
    /\ stDeadline = 0
    /\ stCalls = 0
    /\ stRuntimeErr = FALSE
    /\ stShutdownErr = FALSE
    /\ stClosed = FALSE
    /\ stKilled = 0
    /\ stResult = Null

\* a request arrives while the listener is open
StRequestArrive ==
    /\ stPc \in {"running", "shutdown"}
    /\ stErrCh = "empty"
    /\ stInflight < MaxInflight
    /\ stInflight' = stInflight + 1
    /\ UNCHANGED <<stPc, stCtx, stErrCh, stTimeout, stElapsed, stDeadline, stCalls,
                   stRuntimeErr, stShutdownErr, stClosed, stKilled, stResult>>
    /\ UNCHANGED notSt

\* a request in flight completes
StRequestDone ==
    /\ stPc \in {"running", "shutdown", "draining"}
    /\ stInflight > 0
    /\ stInflight' = stInflight - 1
    /\ UNCHANGED <<stPc, stCtx, stErrCh, stTimeout, stElapsed, stDeadline, stCalls,
                   stRuntimeErr, stShutdownErr, stClosed, stKilled, stResult>>
    /\ UNCHANGED notSt

\* the context given to Start is cancelled
StCancel ==
    /\ stPc = "running"
    /\ ~stCtx
    /\ stCtx' = TRUE
    /\ UNCHANGED <<stPc, stErrCh, stTimeout, stInflight, stElapsed, stDeadline, stCalls,
                   stRuntimeErr, stShutdownErr, stClosed, stKilled, stResult>>
    /\ UNCHANGED notSt

\* Proxy.Start's goroutine: Serve returned an error that is not ErrServerClosed
StServeError ==
    /\ stPc = "running"
    /\ stErrCh = "empty"
    /\ stErrCh' = "err"
    /\ UNCHANGED <<stPc, stCtx, stTimeout, stInflight, stElapsed, stDeadline, stCalls,
                   stRuntimeErr, stShutdownErr, stClosed, stKilled, stResult>>
    /\ UNCHANGED notSt

\* the errgroup goroutine's select and g.Wait(): a runtime error from the channel
StWaitError ==
    /\ stPc = "running"
    /\ stErrCh = "err"
    /\ stErrCh' = "closed"
    /\ stRuntimeErr' = TRUE
    /\ stCtx' = TRUE
    /\ stPc' = "shutdown"
    /\ UNCHANGED <<stTimeout, stInflight, stElapsed, stDeadline, stCalls, stShutdownErr,
                   stClosed, stKilled, stResult>>
    /\ UNCHANGED notSt

\* the errgroup goroutine's select and g.Wait(): case <-gCtx.Done()
StWaitDone ==
    /\ stPc = "running"
    /\ stCtx
    /\ stPc' = "shutdown"
    /\ UNCHANGED <<stCtx, stErrCh, stTimeout, stInflight, stElapsed, stDeadline, stCalls,
                   stRuntimeErr, stShutdownErr, stClosed, stKilled, stResult>>
    /\ UNCHANGED notSt

\* shutdownCtx := WithTimeout(Background, cfg.Shutdown.Timeout);
\* shutdownFuncs[i](shutdownCtx) for the one function: server.Shutdown begins
StShutdown ==
    /\ stPc = "shutdown"
    /\ stCalls' = stCalls + Len(shutdownFuncs)
    /\ stDeadline' = stTimeout
    /\ stElapsed' = 0
    /\ stPc' = "draining"
    /\ UNCHANGED <<stCtx, stErrCh, stTimeout, stInflight, stRuntimeErr, stShutdownErr,
                   stClosed, stKilled, stResult>>
    /\ UNCHANGED notSt

\* time passes during the graceful shutdown
StTick ==
    /\ stPc = "draining"
    /\ stInflight > 0
    /\ stElapsed < stDeadline
    /\ stElapsed' = stElapsed + 1
    /\ UNCHANGED <<stPc, stCtx, stErrCh, stTimeout, stInflight, stDeadline, stCalls,
                   stRuntimeErr, stShutdownErr, stClosed, stKilled, stResult>>
    /\ UNCHANGED notSt

\* Proxy.Shutdown: server.Shutdown(ctx) returned nil
StDrained ==
    /\ stPc = "draining"
    /\ stInflight = 0
    /\ stPc' = "returning"
    /\ UNCHANGED <<stCtx, stErrCh, stTimeout, stInflight, stElapsed, stDeadline, stCalls,
                   stRuntimeErr, stShutdownErr, stClosed, stKilled, stResult>>
    /\ UNCHANGED notSt

\* Proxy.Shutdown: server.Shutdown(ctx) returned the deadline error;
\* _ = p.server.Close(); return "graceful shutdown failed"
StForceClose ==
    /\ stPc = "draining"
    /\ stInflight > 0
    /\ stElapsed = stDeadline
    /\ stClosed' = TRUE
    /\ stKilled' = stInflight
    /\ stInflight' = 0
    /\ stShutdownErr' = TRUE
    /\ stPc' = "returning"
    /\ UNCHANGED <<stCtx, stErrCh, stTimeout, stElapsed, stDeadline, stCalls, stRuntimeErr,
                   stResult>>
    /\ UNCHANGED notSt

\* Start returns errors.Join(errs...) or nil
StReturn ==
    /\ stPc = "returning"
    /\ stResult' = startResult(stRuntimeErr, stShutdownErr)
    /\ stPc' = "done"
    /\ UNCHANGED <<stCtx, stErrCh, stTimeout, stInflight, stElapsed, stDeadline, stCalls,
                   stRuntimeErr, stShutdownErr, stClosed, stKilled>>
    /\ UNCHANGED notSt

StNext ==
    \/ StRequestArrive
    \/ StRequestDone
    \/ StCancel
    \/ StServeError
    \/ StWaitError
    \/ StWaitDone
    \/ StShutdown
    \/ StTick
    \/ StDrained
    \/ StForceClose
    \/ StReturn

\* ---- properties of the application lifecycle
\* C26: Start calls Proxy.Shutdown only after the context is cancelled or the
\* server reported a runtime error, exactly once before it returns, with the
\* configured timeout as deadline; requests that are still in flight at the
\* deadline are cut off by a forced close and Start returns an error;
\* otherwise Start returns an error exactly when there was a runtime error.
C26_ShutdownOnceThenResult ==
    /\ stCalls > 0 => (stCtx \/ stRuntimeErr)
    /\ stCalls <= 1
    /\ stCalls = 1 => stDeadline = stTimeout
    /\ stClosed => (stKilled > 0 /\ stElapsed = stTimeout)
    /\ stPc = "done" =>
          /\ stCalls = 1
          /\ stInflight = 0
          /\ stClosed => stResult = "error"
          /\ ~stClosed => (stResult = "error" <=> stRuntimeErr)
          /\ stResult \in {"nil", "error"}

\* requests were still in flight at the deadline and no runtime error occurred
C26_Witness ==
    /\ stPc = "done"
    /\ stClosed
    /\ stKilled = MaxInflight
    /\ ~stRuntimeErr
    /\ stResult = "error"

\* a cancelled context, requests drained in time: Start returned nil
C26_WitnessGraceful ==
    /\ stPc = "done"
    /\ ~stClosed
    /\ stElapsed > 0
    /\ stResult = "nil"

(***************************************************************************)
(* The iterator of ProcessStreamingRequest on its own: it creates the      *)
(* streaming context, gives every upstream event to transformStreamEvent   *)
(* and yields the chunks.  The events taken are kept, so that what is      *)
(* yielded can be compared with what arrived.                              *)
(***************************************************************************)
Event(type, block, delta, index, text) ==
    [type |-> type, block |-> block, delta |-> delta, index |-> index, text |-> text,
     id |-> IF block = "tool_use" THEN "t1" ELSE Null,
     name |-> IF block = "tool_use" THEN "get_time" ELSE Null,
     stop |-> IF type = "message_delta" THEN "end_turn" ELSE Null,
     accErr |-> FALSE]

DeltaTexts == {"", "A", "B"}
PartialJSONs == {"{", "}"}
CitationUrls == {"", "u1", "u2", "u3"}

UpstreamEvents ==
    {Event("message_start", Null, Null, 0, Null),
     [Event("message_start", Null, Null, 0, Null) EXCEPT !.accErr = TRUE],
     Event("message_delta", Null, Null, 0, Null),
     Event("content_block_stop", Null, Null, 0, Null)}
    \cup {Event("content_block_start", "tool_use", Null, i, Null) : i \in BlockIdx}
    \cup {Event("content_block_start", b, Null, 0, Null) :
              b \in {"text", "web_search_tool_result", "thinking"}}
    \cup {Event("content_block_delta", Null, "text_delta", 0, t) : t \in DeltaTexts}
    \cup {Event("content_block_delta", Null, "input_json_delta", i, t) :
              i \in BlockIdx, t \in PartialJSONs}
    \cup {Event("content_block_delta", Null, "citations_delta", 0, u) : u \in CitationUrls}
    \cup {Event("content_block_delta", Null, d, 0, Null) :
              d \in {"thinking_delta", "signature_delta", "citations_other"}}

TrIdle ==
    /\ trEvents = <<>>
    /\ trCtx = NewStreamingContext
    /\ trOut = <<>>
    /\ trPc = "idle"

\* the iterator function is entered: streamingContext := StreamingResponseContext{...}
TrInit ==
    /\ trEvents = <<>>
    /\ trCtx = NewStreamingContext
    /\ trOut = <<>>
    /\ trPc = "open"

\* for stream.Next() { chunk, err := a.transformStreamEvent(&streamingContext, event) ... }
TrEvent(e) ==
    /\ trPc = "open"
    /\ Len(trEvents) < MaxEvents
    /\ trEvents' = Append(trEvents, e)
    /\ LET r == transformStreamEvent(trCtx, e) IN
         /\ trCtx' = r.sc
         /\ IF r.err
            THEN trPc' = "failed" /\ UNCHANGED trOut
            ELSE /\ UNCHANGED trPc
                 /\ trOut' = IF r.chunk = NoChunk THEN trOut
                             ELSE Append(trOut, [chunk |-> r.chunk, from |-> Len(trEvents) + 1])
    /\ UNCHANGED notTr

\* stream.Next() is false
TrEnd ==
    /\ trPc = "open"
    /\ trPc' = "ended"
    /\ UNCHANGED <<trEvents, trCtx, trOut>>
    /\ UNCHANGED notTr

TrNext ==
    \/ \E e \in UpstreamEvents : TrEvent(e)
    \/ TrEnd

(***************************************************************************)
(* What was yielded, read against what arrived.                            *)
(***************************************************************************)
IsWebSearchResultStart(e) ==
    e.type = "content_block_start" /\ e.block = "web_search_tool_result"
IsTextDelta(e) == e.type = "content_block_delta" /\ e.delta = "text_delta"
IsInputJSONDelta(e) == e.type = "content_block_delta" /\ e.delta = "input_json_delta"
IsWebSearchCitation(e) == e.type = "content_block_delta" /\ e.delta = "citations_delta"
IsOtherCitation(e) == e.type = "content_block_delta" /\ e.delta = "citations_other"

\* the positions before k of the tool_use block starts with Anthropic index idx
StartsBefore(idx, k) ==
    {j \in 1..(k - 1) : IsToolUseStart(trEvents[j]) /\ trEvents[j].index = idx}

Max(S) == CHOOSE x \in S : \A y \in S : y <= x

\* the chunks yielded for the event at position k
ChunksFrom(k) == {i \in 1..Len(trOut) : trOut[i].from = k}

\* the chunk at i is the initial chunk of a tool call: id, name, arguments ""
IsInitialToolChunk(i) ==
    /\ trOut[i].chunk.tool.id # Null
    /\ trOut[i].chunk.tool.name # Null
    /\ trOut[i].chunk.tool.arguments = ""

C27_IndexAsAnnounced ==
    \A i \in 1..Len(trOut) :
        LET k == trOut[i].from IN
        IsInputJSONDelta(trEvents[k]) =>
            /\ StartsBefore(trEvents[k].index, k) # {}
            /\ \E j \in 1..(i - 1) :
                   /\ trOut[j].from = Max(StartsBefore(trEvents[k].index, k))
                   /\ IsInitialToolChunk(j)
                   /\ trOut[j].chunk.tool.index = trOut[i].chunk.tool.index

C27_UnregisteredDropped ==
    \A k \in 1..Len(trEvents) :
        (IsInputJSONDelta(trEvents[k]) /\ StartsBefore(trEvents[k].index, k) = {})
            => ChunksFrom(k) = {}

\* the step takes an InputJSONDelta of a block index no tool_use start registered
TakesUnregisteredDelta ==
    /\ Len(trEvents') = Len(trEvents) + 1
    /\ IsInputJSONDelta(trEvents'[Len(trEvents')])
    /\ StartsBefore(trEvents'[Len(trEvents')].index, Len(trEvents')) = {}

\* C27: every argument chunk yielded for an InputJSONDelta carries the OpenAI
\* index of the initial chunk (id, name) yielded earlier for the tool_use block
\* with the same Anthropic block index; an InputJSONDelta of a block index that
\* no tool_use content_block_start registered yields no chunk and leaves the
\* streaming context as it was.
C27_ArgumentChunksFollowAnnouncedIndex ==
    /\ [](C27_IndexAsAnnounced /\ C27_UnregisteredDropped)
    /\ [][TakesUnregisteredDelta => (trCtx' = trCtx /\ trOut' = trOut)]_vars

\* a tool_use block at Anthropic index 1 was announced as OpenAI index 0, its
\* delta was yielded with index 0, and a delta of the unregistered block 0
\* was dropped
C27_Witness ==
    /\ Len(trEvents) = 3
    /\ IsToolUseStart(trEvents[1]) /\ trEvents[1].index = 1
    /\ IsInputJSONDelta(trEvents[2]) /\ trEvents[2].index = 1
    /\ IsInputJSONDelta(trEvents[3]) /\ trEvents[3].index = 0
    /\ Len(trOut) = 2
    /\ trOut[1].chunk.tool.index = 0
    /\ trOut[2].chunk.tool.index = 0
    /\ trOut[2].chunk.tool.arguments = trEvents[2].text


IsThinkingOrSignature(e) ==
    e.type = "content_block_delta" /\ e.delta \in {"thinking_delta", "signature_delta"}

\* the texts of the TextDeltas among the first k events, concatenated
RECURSIVE upstreamText(_)
upstreamText(k) ==
    IF k = 0 THEN ""
    ELSE upstreamText(k - 1) \o
         (IF IsTextDelta(trEvents[k]) THEN trEvents[k].text ELSE "")

\* the content fields of the first i chunks, concatenated
RECURSIVE emittedContent(_)
emittedContent(i) ==
    IF i = 0 THEN ""
    ELSE emittedContent(i - 1) \o
         (IF trOut[i].chunk.content = Null THEN "" ELSE trOut[i].chunk.content)

\* the arguments of the chunks of tool call n among the first i chunks
RECURSIVE emittedArguments(_, _)
emittedArguments(n, i) ==
    IF i = 0 THEN ""
    ELSE emittedArguments(n, i - 1) \o
         (IF trOut[i].chunk.tool.index = n THEN trOut[i].chunk.tool.arguments ELSE "")

\* the partial_json, among the first k events, of the tool_use block that
\* started at position p
RECURSIVE upstreamPartialJSON(_, _)
upstreamPartialJSON(p, k) ==
    IF k <= p THEN ""
    ELSE upstreamPartialJSON(p, k - 1) \o
         (IF /\ IsInputJSONDelta(trEvents[k])
             /\ trEvents[k].index = trEvents[p].index
             /\ Max(StartsBefore(trEvents[k].index, k)) = p
          THEN trEvents[k].text ELSE "")

NoWebSearchNoCitations ==
    \A k \in 1..Len(trEvents) :
        /\ ~IsWebSearchResultStart(trEvents[k])
        /\ ~IsWebSearchCitation(trEvents[k])
        /\ ~IsOtherCitation(trEvents[k])

\* C28: for a stream without web-search result blocks and without citations,
\* the content fields of the yielded chunks, concatenated in the order
\* yielded, are the texts of the upstream TextDeltas concatenated in the
\* order of arrival, and for each tool call the arguments of its chunks
\* concatenated are the partial_json of its block concatenated; thinking and
\* signature deltas yield nothing.
C28_ContentAndArgumentsPreserved ==
    NoWebSearchNoCitations =>
        /\ emittedContent(Len(trOut)) = upstreamText(Len(trEvents))
        /\ \A j \in 1..Len(trOut) :
               IsInitialToolChunk(j) =>
                   emittedArguments(trOut[j].chunk.tool.index, Len(trOut))
                       = upstreamPartialJSON(trOut[j].from, Len(trEvents))
        /\ \A k \in 1..Len(trEvents) :
               IsThinkingOrSignature(trEvents[k]) => ChunksFrom(k) = {}

\* a tool call whose arguments arrived in two pieces
C28_Witness ==
    /\ NoWebSearchNoCitations
    /\ Len(trEvents) = 3
    /\ IsToolUseStart(trEvents[1])
    /\ Len(trOut) = 3
    /\ IsInitialToolChunk(1)
    /\ emittedArguments(trOut[1].chunk.tool.index, 3) = "{}"

\* a text that arrived in two pieces around a thinking delta
C28_WitnessText ==
    /\ NoWebSearchNoCitations
    /\ Len(trEvents) = 3
    /\ IsThinkingOrSignature(trEvents[2])
    /\ Len(trOut) = 2
    /\ emittedContent(2) = "AB"


\* a TextDelta that yields a chunk: its text is not empty
IsShownText(e) == IsTextDelta(e) /\ e.text # ""

\* a web_search_tool_result block started before position k and no shown text
\* arrived between it and k
SearchPendingAt(k) ==
    \E j \in 1..(k - 1) :
        /\ IsWebSearchResultStart(trEvents[j])
        /\ \A l \in (j + 1)..(k - 1) : ~IsShownText(trEvents[l])


C29_FlagFollowsSearch ==
    trCtx.JustFinishedWebSearch = SearchPendingAt(Len(trEvents) + 1)

C29_PrefixOnlyAfterSearch ==
    \A i \in 1..Len(trOut) :
        LET k == trOut[i].from IN
        IsTextDelta(trEvents[k]) =>
            trOut[i].chunk.content =
                (IF SearchPendingAt(k) THEN "\n\n" ELSE "") \o trEvents[k].text

\* the step sets the flag
SetsFlag == ~trCtx.JustFinishedWebSearch /\ trCtx'.JustFinishedWebSearch

\* the step clears the flag
ClearsFlag == trCtx.JustFinishedWebSearch /\ ~trCtx'.JustFinishedWebSearch

\* C29: after a web_search_tool_result content_block_start the next text
\* chunk yielded for a TextDelta begins with "\n\n" and clears
\* JustFinishedWebSearch, so the chunks of later TextDeltas carry their text
\* unprefixed until another web_search_tool_result block starts; the flag is
\* false when the stream starts, only a web_search_tool_result block sets it
\* and only a TextDelta that yields a chunk clears it.
C29_SeparatorOnceAfterWebSearch ==
    /\ (trEvents = <<>> => ~trCtx.JustFinishedWebSearch)
    /\ [](C29_FlagFollowsSearch /\ C29_PrefixOnlyAfterSearch)
    /\ [][(SetsFlag => IsWebSearchResultStart(trEvents'[Len(trEvents')]))
          /\ (ClearsFlag => IsShownText(trEvents'[Len(trEvents')]))]_vars

\* a web search result, then two texts: the first prefixed, the second not
C29_Witness ==
    /\ Len(trEvents) = 3
    /\ IsWebSearchResultStart(trEvents[1])
    /\ Len(trOut) = 2
    /\ trOut[1].chunk.content = "\n\nA"
    /\ trOut[2].chunk.content = "B"
    /\ ~trCtx.JustFinishedWebSearch

\* an empty TextDelta after the web search result leaves the flag set
C29_WitnessEmptyText ==
    /\ Len(trEvents) = 2
    /\ IsWebSearchResultStart(trEvents[1])
    /\ IsTextDelta(trEvents[2]) /\ trEvents[2].text = ""
    /\ trOut = <<>>
    /\ trCtx.JustFinishedWebSearch


\* a web-search citation that names a URL
IsNumberedCitation(e) == IsWebSearchCitation(e) /\ e.text # ""

\* the distinct URLs cited among the first k events
CitedUrls(k) == {trEvents[j].text : j \in {l \in 1..k : IsNumberedCitation(trEvents[l])}}

\* where the URL u was cited first
FirstCited(u) ==
    CHOOSE k \in 1..Len(trEvents) :
        /\ IsNumberedCitation(trEvents[k]) /\ trEvents[k].text = u
        /\ \A j \in 1..(k - 1) : ~(IsNumberedCitation(trEvents[j]) /\ trEvents[j].text = u)

\* the place of u among the distinct URLs in the order of their first citation
RankOfUrl(u) == Cardinality(CitedUrls(FirstCited(u)))

CitationMarkdown(n, u) == "[[" \o ToString(n) \o "]](" \o u \o ") "

C30_NumberedByFirstAppearance ==
    \A k \in 1..Len(trEvents) :
        IsNumberedCitation(trEvents[k]) =>
            /\ Cardinality(ChunksFrom(k)) = 1
            /\ \A i \in ChunksFrom(k) :
                   /\ trOut[i].chunk.content
                          = CitationMarkdown(RankOfUrl(trEvents[k].text), trEvents[k].text)
                   /\ trOut[i].chunk.tool = NoTool

C30_NumbersDistinct ==
    /\ DOMAIN trCtx.CitationURLToNumber = CitedUrls(Len(trEvents))
    /\ \A u \in DOMAIN trCtx.CitationURLToNumber :
           /\ trCtx.CitationURLToNumber[u] = RankOfUrl(u)
           /\ \A v \in DOMAIN trCtx.CitationURLToNumber :
                  u # v => trCtx.CitationURLToNumber[u] # trCtx.CitationURLToNumber[v]
    /\ trCtx.NextCitationNumber = Cardinality(CitedUrls(Len(trEvents))) + 1

C30_OthersSilent ==
    \A k \in 1..Len(trEvents) :
        ((IsWebSearchCitation(trEvents[k]) /\ trEvents[k].text = "")
            \/ IsOtherCitation(trEvents[k]))
        => ChunksFrom(k) = {}

\* the step takes a citation that is not a web-search citation with a URL
TakesUnnumberedCitation ==
    /\ Len(trEvents') = Len(trEvents) + 1
    /\ \/ IsOtherCitation(trEvents'[Len(trEvents')])
       \/ /\ IsWebSearchCitation(trEvents'[Len(trEvents')])
          /\ trEvents'[Len(trEvents')].text = ""

\* C30: within one response the web-search citation numbers are 1, 2, 3, ...
\* in the order in which each distinct URL is cited first, a URL keeps its
\* number, two URLs never share one, and each web-search CitationsDelta with a
\* non-empty URL yields exactly one text chunk "[[N]](URL) "; the other
\* citations yield nothing and take no number.
C30_CitationNumbering ==
    /\ [](C30_NumberedByFirstAppearance /\ C30_NumbersDistinct /\ C30_OthersSilent)
    /\ [][TakesUnnumberedCitation =>
            /\ trCtx'.NextCitationNumber = trCtx.NextCitationNumber
            /\ trCtx'.CitationURLToNumber = trCtx.CitationURLToNumber
            /\ trOut' = trOut]_vars

\* two URLs, the first cited again: numbers 1, 2, 1
C30_Witness ==
    /\ Len(trEvents) = 3
    /\ Len(trOut) = 3
    /\ trOut[1].chunk.content = "[[1]](u1) "
    /\ trOut[2].chunk.content = "[[2]](u2) "
    /\ trOut[3].chunk.content = "[[1]](u1) "
    /\ trCtx.NextCitationNumber = 3

\* three URLs cited one after the other: numbers 1, 2, 3
C30_WitnessThree ==
    /\ Len(trOut) = 3
    /\ trOut[1].chunk.content = "[[1]](u2) "
    /\ trOut[2].chunk.content = "[[2]](u3) "
    /\ trOut[3].chunk.content = "[[3]](u1) "
    /\ trCtx.NextCitationNumber = 4

\* citations without a number before the first numbered one
C30_WitnessUnnumbered ==
    /\ Len(trEvents) = 3
    /\ IsOtherCitation(trEvents[1])
    /\ IsWebSearchCitation(trEvents[2]) /\ trEvents[2].text = ""
    /\ Len(trOut) = 1
    /\ trOut[1].chunk.content = "[[1]](u2) "


(***************************************************************************)
(* The streaming handler after the client has gone.                        *)
(***************************************************************************)
\* C31: once the request context of a streaming response is cancelled the
\* handler writes no further frame, no chunk, no error frame and no [DONE],
\* at whatever point of the stream the cancellation happens, the end of the
\* upstream included.
C31_NoFrameAfterCancel ==
    [][ctxErr => frames' = frames]_vars

\* what the handler does: a frame follows the cancellation only from the two
\* places that are past the loop's ctx.Err() check, the write of the chunk or
\* error in hand and the [DONE] marker after the loop
C31_FrameAfterCancelOnlyPastCheck ==
    [][(ctxErr /\ frames' # frames) => hPc \in {"write", "marker"}]_vars

\* the [DONE] marker was written although the context was cancelled
C31_DoneAfterCancel ==
    /\ ctxErr
    /\ outcome = "completed"
    /\ frames # <<>>
    /\ frames[Len(frames)] = DoneFrame


(***************************************************************************)
(* The write-back critical section of PersistentTokenSource.Token.         *)
(***************************************************************************)
\* the callers between writeMu.Lock() and writeMu.Unlock()
InCriticalSection == {c \in Callers : tkPc[c] \in {"write", "cache", "unlock"}}

\* caller c executes p.lastRefreshToken.Store in this step
StoresCache(c) == tkPc[c] \in {"remember", "cache"} /\ tkPc'[c] # tkPc[c]

\* the Store of the write-back: under the lock, of the token just written
StoreUnderLock(c) ==
    /\ tkPc[c] = "cache"
    /\ tkMu = c
    /\ tkLoc[c].wrote = "ok"
    /\ tkStore = tkLoc[c].fresh
    /\ tkLast' = tkLoc[c].fresh

\* the Store of createTokenSource: inside the once cell, of the token read
\* from the store, before any caller has an inner source
StoreAtInit(c) ==
    /\ tkPc[c] = "remember"
    /\ tkOnce = "running"
    /\ tkMu = 0
    /\ tkCount.write = 0
    /\ tkLast = Null
    /\ tkLast' = tkLoc[c].initialToken
    /\ tkLoc[c].initialToken = tkStore
    /\ \A d \in Callers : ~HasSource(d)

C32_OneWriter ==
    /\ Cardinality(InCriticalSection) <= 1
    /\ \A c \in Callers : c \in InCriticalSection <=> tkMu = c

\* C32 as stated: at most one store Write is in progress at any time, and the
\* last-persisted cache is updated only while the write lock is held and only
\* to a value whose Write has just succeeded.
C32_CacheOnlyUnderLock ==
    /\ []C32_OneWriter
    /\ [][\A c \in Callers : StoresCache(c) => StoreUnderLock(c)]_vars

\* C32 (amended): at most one store Write is in progress at any time; after
\* the one-time initialization, which stores the token read from the store
\* inside the once cell before any caller has an inner source, the
\* last-persisted cache is updated only while the write lock is held and only
\* to a value whose Write has just succeeded.
C32_CacheUnderLockAfterInit ==
    /\ []C32_OneWriter
    /\ [][\A c \in Callers :
            StoresCache(c) => (StoreUnderLock(c) \/ StoreAtInit(c))]_vars

\* one caller has written r1 and updated the cache under the lock while the
\* other waits for the lock with r2
C32_Witness ==
    \E c, d \in Callers :
        /\ c # d
        /\ tkPc[c] = "unlock" /\ tkMu = c
        /\ tkLoc[c].wrote = "ok" /\ tkLast = tkLoc[c].fresh
        /\ tkPc[d] = "lock" /\ tkLoc[d].fresh # tkLoc[c].fresh


\* the place of a refresh token in the order in which the inner source issued them
RtIndex(t) == CHOOSE k \in 0..MaxRotations : Rt(k) = t

\* C38: under concurrent Token() calls the persisted refresh token never
\* regresses: once a later-issued refresh token has been written, the store
\* is not overwritten with one issued before it.
C38_StoreNeverRegresses ==
    [][RtIndex(tkStore') >= RtIndex(tkStore)]_vars

\* every Token() call has returned and the store holds a refresh token older
\* than the one the inner source issued last, although no Write failed
C38_StaleAtRest ==
    /\ \A c \in Callers : tkPc[c] = "idle" /\ tkLoc[c].wrote # "failed"
    /\ tkCount.write = 2
    /\ RtIndex(tkStore) < tkInner.issued
    /\ tkLast = tkStore


(***************************************************************************)
(* SSEWriter: WriteData, WriteComment and WriteRaw.  Strings are sequences *)
(* of characters, so that the replacers are computed.                      *)
(***************************************************************************)
SseChars == {"a", "\n", "\r"}
SseStrings == UNION {[1..k -> SseChars] : k \in 0..MaxRawLen}

\* strings.NewReplacer with one-byte old strings: each character that has an
\* entry in the table is replaced by it, every other character is copied
RECURSIVE Replace(_, _)
Replace(table, s) ==
    IF s = <<>> THEN <<>>
    ELSE (IF Head(s) \in DOMAIN table THEN table[Head(s)] ELSE <<Head(s)>>)
         \o Replace(table, Tail(s))

\* a variant of the table below without the entry for the carriage return
dataReplacerNewlineOnly ==
    [old \in {"\n"} |-> <<"\n", "d", "a", "t", "a", ":">>]

dataReplacer ==
    [old \in {"\n", "\r"} |->
        IF old = "\n" THEN <<"\n", "d", "a", "t", "a", ":">> ELSE <<"\\", "r">>]

commentReplacer ==
    [old \in {"\n", "\r"} |->
        IF old = "\n" THEN <<"\n", ":", " ">> ELSE <<"\\", "r">>]

sseDataPrefix == <<"d", "a", "t", "a", ":", " ">>
sseCommentPrefix == <<":", " ">>
sseTerminator == <<"\n", "\n">>

\* json.Marshal of a string: quoted, control characters escaped
jsonEscapes ==
    [old \in {"\n", "\r"} |-> IF old = "\n" THEN <<"\\", "n">> ELSE <<"\\", "r">>]
jsonMarshal(s) == <<"\"">> \o Replace(jsonEscapes, s) \o <<"\"">>

SwIdle ==
    /\ swKind = Null
    /\ swIn = <<>>
    /\ swOut = <<>>
    /\ swPc = "idle"
    /\ swRes = Null
    /\ swCalls = 0
    /\ swNil = 0
    /\ swFlushes = 0

\* an SSEWriter NewSSEWriter has returned; nothing written yet
SwInit ==
    /\ swKind = Null
    /\ swIn = <<>>
    /\ swOut = <<>>
    /\ swPc = "ready"
    /\ swRes = Null
    /\ swCalls = 0
    /\ swNil = 0
    /\ swFlushes = 0

\* the call returns err
SwFail ==
    /\ swPc' = "done"
    /\ swRes' = "error"
    /\ UNCHANGED <<swOut, swNil, swFlushes>>

\* WriteData(v), WriteRaw(data) or WriteComment(comment) is called
SwCall(kind, s) ==
    /\ swPc \in {"ready", "done"}
    /\ swCalls < MaxSseCalls
    /\ swCalls' = swCalls + 1
    /\ swKind' = kind
    /\ swIn' = s
    /\ swOut' = <<>>
    /\ swRes' = Null
    /\ swPc' = IF kind = "data" THEN "marshal" ELSE "prefix"
    /\ UNCHANGED <<swNil, swFlushes>>
    /\ UNCHANGED notSw

\* WriteData: data, err := json.Marshal(v)
SwMarshal(ok) ==
    /\ swPc = "marshal"
    /\ IF ok THEN swPc' = "prefix" /\ UNCHANGED <<swOut, swRes, swNil, swFlushes>>
       ELSE SwFail
    /\ UNCHANGED <<swKind, swIn, swCalls>>
    /\ UNCHANGED notSw

\* s.w.Write(sseDataPrefix) / s.w.Write(sseCommentPrefix)
SwWritePrefix(ok) ==
    /\ swPc = "prefix"
    /\ IF ok
       THEN /\ swOut' = swOut \o (IF swKind = "comment" THEN sseCommentPrefix ELSE sseDataPrefix)
            /\ swPc' = "body"
            /\ UNCHANGED <<swRes, swNil, swFlushes>>
       ELSE SwFail
    /\ UNCHANGED <<swKind, swIn, swCalls>>
    /\ UNCHANGED notSw

\* s.w.Write(data) / dataReplacer.WriteString(s.w, data) /
\* commentReplacer.WriteString(s.w, comment)
SwWriteBody(ok) ==
    /\ swPc = "body"
    /\ IF ok
       THEN /\ swOut' = swOut \o
                 (CASE swKind = "data"    -> jsonMarshal(swIn)
                    [] swKind = "raw"     -> Replace(dataReplacer, swIn)
                    [] swKind = "comment" -> Replace(commentReplacer, swIn))
            /\ swPc' = "terminator"
            /\ UNCHANGED <<swRes, swNil, swFlushes>>
       ELSE SwFail
    /\ UNCHANGED <<swKind, swIn, swCalls>>
    /\ UNCHANGED notSw

\* s.w.Write(sseTerminator)
SwWriteTerminator(ok) ==
    /\ swPc = "terminator"
    /\ IF ok
       THEN /\ swOut' = swOut \o sseTerminator
            /\ swPc' = "flush"
            /\ UNCHANGED <<swRes, swNil, swFlushes>>
       ELSE SwFail
    /\ UNCHANGED <<swKind, swIn, swCalls>>
    /\ UNCHANGED notSw

\* a variant of the step below that returns without flushing
SwFlushSkipped ==
    /\ swPc = "flush"
    /\ swPc' = "done"
    /\ swRes' = "ok"
    /\ swNil' = swNil + 1
    /\ UNCHANGED <<swKind, swIn, swOut, swCalls, swFlushes>>
    /\ UNCHANGED notSw

\* s.flusher.Flush(); return nil
SwFlush ==
    /\ swPc = "flush"
    /\ swFlushes' = swFlushes + 1
    /\ swPc' = "done"
    /\ swRes' = "ok"
    /\ swNil' = swNil + 1
    /\ UNCHANGED <<swKind, swIn, swOut, swCalls>>
    /\ UNCHANGED notSw

SwNext ==
    \/ \E kind \in {"data", "raw", "comment"}, s \in SseStrings : SwCall(kind, s)
    \/ \E ok \in BOOLEAN : SwMarshal(ok)
    \/ \E ok \in BOOLEAN : SwWritePrefix(ok)
    \/ \E ok \in BOOLEAN : SwWriteBody(ok)
    \/ \E ok \in BOOLEAN : SwWriteTerminator(ok)
    \/ SwFlush

\* s with each \n replaced by \ndata: and each \r by backslash-r
RECURSIVE Escaped(_)
Escaped(s) ==
    IF s = <<>> THEN <<>>
    ELSE (CASE Head(s) = "\n" -> <<"\n", "d", "a", "t", "a", ":">>
            [] Head(s) = "\r" -> <<"\\", "r">>
            [] OTHER          -> <<Head(s)>>)
         \o Escaped(Tail(s))

\* the positions of out at which a blank line (two newlines in a row) begins
BlankLines(out) == {i \in 1..(Len(out) - 1) : out[i] = "\n" /\ out[i + 1] = "\n"}

RawWritten == swKind = "raw" /\ swRes = "ok"

\* C33: for every string s given to WriteRaw the bytes written are "data: ",
\* then s with each \n replaced by \ndata: and each \r by the two characters
\* backslash-r, then "\n\n"; the frame holds exactly one blank line, at its
\* end, and no carriage return; and each WriteData, WriteRaw or WriteComment
\* that returns nil has flushed exactly once.
C33_RawFrameEscaped ==
    /\ RawWritten =>
          /\ swOut = <<"d", "a", "t", "a", ":", " ">> \o Escaped(swIn) \o <<"\n", "\n">>
          /\ BlankLines(swOut) = {Len(swOut) - 1}
          /\ \A i \in 1..Len(swOut) : swOut[i] # "\r"
    /\ swFlushes = swNil
    /\ swRes = "ok" => swFlushes >= 1
    /\ swNil <= swCalls

\* WriteRaw of a string with a newline and a carriage return, after an
\* earlier successful call
C33_Witness ==
    /\ RawWritten
    /\ swIn = <<"\n", "\n", "\r">>
    /\ swOut = <<"d", "a", "t", "a", ":", " ", "\n", "d", "a", "t", "a", ":",
                 "\n", "d", "a", "t", "a", ":", "\\", "r", "\n", "\n">>
    /\ swFlushes = 2


(***************************************************************************)
(* The body of the outbound request.                                       *)
(***************************************************************************)
\* C34: the transport rewrites the body exactly when the method is POST and
\* a body is present: then the outbound request has no Content-Length
\* header, content length -1 and the pipe fed by the injector as body; for
\* every other request body and length are the inbound ones and no producer
\* goroutine is started.
C34_BodyRewrittenIffPostWithBody ==
    /\ ~RtSentNow => ~rtProducer
    /\ RtSentNow =>
          IF rtReq.Method = "POST" /\ rtReq.HasBody
          THEN /\ "Content-Length" \notin DOMAIN rtSent.Header
               /\ rtSent.ContentLength = -1
               /\ rtSent.Body = "pipe"
               /\ rtProducer
          ELSE /\ rtSent.Body = rtReq.Body
               /\ rtSent.ContentLength = rtReq.ContentLength
               /\ ("Content-Length" \in DOMAIN rtReq.Header
                      => /\ "Content-Length" \in DOMAIN rtSent.Header
                         /\ rtSent.Header["Content-Length"] = rtReq.Header["Content-Length"])
               /\ ~rtProducer

\* a POST with a body and a Content-Length header has been sent rewritten
C34_Witness ==
    /\ RtSentNow
    /\ rtReq.Method = "POST" /\ rtReq.HasBody
    /\ "Content-Length" \in DOMAIN rtReq.Header
    /\ rtSent.Body = "pipe"
    /\ rtProducer

\* a GET with a body has been sent with the body it came with
C34_WitnessGetWithBody ==
    /\ RtSentNow
    /\ rtReq.Method = "GET" /\ rtReq.HasBody
    /\ rtSent.Body = "inbound"
    /\ ~rtProducer


\* ---- C35: a body that stops being valid inside the object ends in an error ----

DefectInside == inDefect.kind \in {"bad_key", "bad_value"}
NotCompleteObject == inDefect.kind # "none"

\* what the reader of the outbound body is given at the end of the stream
ReaderSeesError == inErr /\ inWerr = "error" /\ ~inOut.closed
ReaderSeesCleanEnd == ~inErr /\ inWerr = "EOF" /\ inOut.closed

\* C35 as stated: every body that starts with '{' and is not a complete valid
\* JSON object makes injectSystemPrompt return an error, and the pipe is closed
\* with that error.  A complete object followed by further bytes refutes it:
\* the decoder never reads past the closing brace
C35_EveryInvalidBodyFails ==
    /\ (inPc \in {"done", "closed"} /\ NotCompleteObject) => inErr
    /\ (inPc = "closed" /\ NotCompleteObject) => ReaderSeesError

\* C35, amended: a body that is truncated or malformed at or before the closing
\* brace of the object makes injectSystemPrompt return an error, the pipe is
\* closed with that error and the closing brace is never written; a body whose
\* only defect is bytes after the closing brace ends like a complete one
C35_DefectInsideObjectFails ==
    /\ (inPc \in {"done", "closed"} /\ DefectInside) => (inErr /\ ~inOut.closed)
    /\ (inPc = "closed" /\ DefectInside) => ReaderSeesError
    /\ (inPc = "closed" /\ ~DefectInside) => ReaderSeesCleanEnd

C35_Witness ==
    /\ inPc = "closed"
    /\ inDefect = Defect("bad_value", 1)
    /\ Len(inOut.members) = 2
    /\ ReaderSeesError

C35_WitnessTruncatedKey ==
    /\ inPc = "closed"
    /\ inDefect.kind = "bad_key"
    /\ inDefect.at = Len(inDoc.members)
    /\ inDefect.at > 0
    /\ ReaderSeesError


\* ---- buildGenerationParams: tool choice and web search (generation.go) ----

FunctionNames == {"get_weather", "lookup"}

\* a nil pointer, and a field of the parameters that is not set
Nil == [nil |-> TRUE]

\* the tool_choice of a request: absent, one of the three modes, or a named tool
ToolChoiceMode(m) == [type |-> m, name |-> ""]
NamedTool(n) == [type |-> "function", name |-> n]
ToolChoiceOptions ==
    {Nil} \cup {ToolChoiceMode(m) : m \in {"auto", "required", "none"}}
          \cup {NamedTool(n) : n \in FunctionNames}

\* parallel_tool_calls is a *bool, web_search_options a pointer
GenerationRequests ==
    [ToolChoice : ToolChoiceOptions,
     ParallelToolCalls : {"nil", "true", "false"},
     WebSearchOptions : BOOLEAN]

\* anthropic.ToolChoiceUnionParam: one pointer per variant
NoToolChoice == [OfAuto |-> Nil, OfAny |-> Nil, OfTool |-> Nil, OfNone |-> Nil]
ToolChoiceAutoParam(d) == [DisableParallelToolUse |-> d]
ToolChoiceAnyParam(d) == [DisableParallelToolUse |-> d]
ToolChoiceToolParam(n, d) == [Name |-> n, DisableParallelToolUse |-> d]
ToolChoiceNoneParam == [Type |-> "none"]

\* tool_choice to the Anthropic union: auto to auto, required to any, none to
\* none, a named function to that tool
fromToolChoiceOption(tc) ==
    IF tc.type = "auto" THEN [NoToolChoice EXCEPT !.OfAuto = ToolChoiceAutoParam("unset")]
    ELSE IF tc.type = "required" THEN [NoToolChoice EXCEPT !.OfAny = ToolChoiceAnyParam("unset")]
    ELSE IF tc.type = "none" THEN [NoToolChoice EXCEPT !.OfNone = ToolChoiceNoneParam]
    ELSE [NoToolChoice EXCEPT !.OfTool = ToolChoiceToolParam(tc.name, "unset")]

\* a variant of the step below that sets the flag on whichever variant is set
\* and that has a flag
disableParallelToolUseOnSetVariant(tc) ==
    IF tc.OfAuto # Nil THEN [tc EXCEPT !.OfAuto.DisableParallelToolUse = "true"]
    ELSE IF tc.OfAny # Nil THEN [tc EXCEPT !.OfAny.DisableParallelToolUse = "true"]
    ELSE IF tc.OfTool # Nil THEN [tc EXCEPT !.OfTool.DisableParallelToolUse = "true"]
    ELSE IF tc.OfNone # Nil THEN tc
    ELSE [tc EXCEPT !.OfAuto = ToolChoiceAutoParam("true")]

\* a variant of the step below that leaves an auto choice as it is
disableParallelToolUseSkipAuto(tc) ==
    IF tc.OfAuto # Nil THEN tc
    ELSE IF tc.OfAny # Nil THEN [tc EXCEPT !.OfAny.DisableParallelToolUse = "true"]
    ELSE [tc EXCEPT !.OfAuto = ToolChoiceAutoParam("true")]

\* the branch taken when parallel_tool_calls is false: the flag goes on the auto
\* variant if set, else on the any variant if set, else a new auto variant is
\* stored, whatever the other two variants hold
disableParallelToolUse(tc) ==
    IF tc.OfAuto # Nil THEN [tc EXCEPT !.OfAuto.DisableParallelToolUse = "true"]
    ELSE IF tc.OfAny # Nil THEN [tc EXCEPT !.OfAny.DisableParallelToolUse = "true"]
    ELSE [tc EXCEPT !.OfAuto = ToolChoiceAutoParam("true")]

WebSearchTool == [OfWebSearchTool20250305 |-> [Name |-> "web_search"]]

\* the tool choice and the tools of the parameters; the request of the model
\* has no tools of its own, so params.Tools is nil before the web search step
buildGenerationParams(req, env) ==
    LET chosen == IF req.ToolChoice # Nil
                  THEN fromToolChoiceOption(req.ToolChoice)
                  ELSE NoToolChoice
        choice == IF req.ParallelToolCalls = "false"
                  THEN disableParallelToolUse(chosen)
                  ELSE chosen
        enableWebSearch == req.WebSearchOptions \/ env
    IN  [ToolChoice |-> choice,
         Tools |-> IF enableWebSearch THEN <<WebSearchTool>> ELSE <<>>]

GpIdle ==
    /\ gpReq = Nil
    /\ gpEnv = FALSE
    /\ gpParams = Nil
    /\ gpPc = "idle"

GpInit ==
    /\ gpReq \in GenerationRequests
    /\ gpEnv \in BOOLEAN
    /\ gpParams = Nil
    /\ gpPc = "ready"

GpBuild ==
    /\ gpPc = "ready"
    /\ gpParams' = buildGenerationParams(gpReq, gpEnv)
    /\ gpPc' = "built"
    /\ UNCHANGED <<gpReq, gpEnv>>
    /\ UNCHANGED notGp

GpNext == GpBuild

\* ---- C36: the tool choice when parallel_tool_calls is false ----

Variants == {"OfAuto", "OfAny", "OfTool", "OfNone"}
SetVariants(tc) == {v \in Variants : tc[v] # Nil}

\* the variant a tool_choice of the request maps to, auto when absent
MappedVariant(tc) ==
    IF tc = Nil \/ tc.type = "auto" THEN "OfAuto"
    ELSE IF tc.type = "required" THEN "OfAny"
    ELSE IF tc.type = "none" THEN "OfNone"
    ELSE "OfTool"

ParallelDisabled == gpPc = "built" /\ gpReq.ParallelToolCalls = "false"

CarriesDisable(tc, v) ==
    /\ "DisableParallelToolUse" \in DOMAIN tc[v]
    /\ tc[v].DisableParallelToolUse = "true"

\* C36: with parallel_tool_calls false, for every tool_choice the Anthropic tool
\* choice has exactly one variant set, the one the tool_choice maps to, and that
\* variant carries disable_parallel_tool_use = true
C36_OneMappedVariantWithDisable ==
    ParallelDisabled =>
        /\ SetVariants(gpParams.ToolChoice) = {MappedVariant(gpReq.ToolChoice)}
        /\ CarriesDisable(gpParams.ToolChoice, MappedVariant(gpReq.ToolChoice))

\* what the code does: the claim holds for an absent, auto or required
\* tool_choice; for none or a named tool the mapped variant is kept without the
\* flag and an auto variant with the flag is set beside it
C36_AutoBesideOtherVariant ==
    ParallelDisabled =>
        IF MappedVariant(gpReq.ToolChoice) \in {"OfAuto", "OfAny"}
        THEN /\ SetVariants(gpParams.ToolChoice) = {MappedVariant(gpReq.ToolChoice)}
             /\ CarriesDisable(gpParams.ToolChoice, MappedVariant(gpReq.ToolChoice))
        ELSE /\ SetVariants(gpParams.ToolChoice) = {MappedVariant(gpReq.ToolChoice), "OfAuto"}
             /\ CarriesDisable(gpParams.ToolChoice, "OfAuto")
             /\ ~CarriesDisable(gpParams.ToolChoice, MappedVariant(gpReq.ToolChoice))

C36_TwoVariantsSet ==
    /\ ParallelDisabled
    /\ gpReq.ToolChoice = NamedTool("lookup")
    /\ SetVariants(gpParams.ToolChoice) = {"OfTool", "OfAuto"}

\* ---- C37: injecting twice gives what injecting once gives ----

SecondDone == inPc = "done" /\ inFirst # Incomplete

PromptElementCount(v) ==
    Cardinality({i \in 1..Len(Get(v, "system").items) :
                    Get(v, "system").items[i] = systemPromptElement})

\* C37: for every valid JSON object, injectSystemPrompt applied to the output of
\* a first application returns no error and writes an object equal to that
\* output, member for member; the second application adds no prompt element
C37_InjectionIdempotent ==
    SecondDone =>
        /\ ~inErr
        /\ OutValue = inFirst
        /\ PromptElementCount(OutValue) = PromptElementCount(inFirst)

\* the second application of an object whose first gave a system array of the
\* prompt element followed by another element
C37_Witness ==
    /\ SecondDone
    /\ Len(Get(inFirst, "system").items) >= 2
    /\ Get(inFirst, "system").items[1] = systemPromptElement
    /\ Get(inFirst, "system").items[2] = HelpfulElement
    /\ OutValue = inFirst

\* the second application where the first put the prompt element in front of
\* an element that already carried the prompt
C37_WitnessPromptTwice ==
    /\ SecondDone
    /\ PromptElementCount(inFirst) = 1
    /\ Len(Get(inFirst, "system").items) >= 2
    /\ Get(inFirst, "system").items[2] = PromptWithCacheControl


\* ---- C39: no two adjacent tool_result messages in the final messages ----

IsToolResultMessage(m) ==
    /\ m.ParamRole = "user"
    /\ m.Blocks # <<>>
    /\ \A j \in 1..Len(m.Blocks) : m.Blocks[j].type = "tool_result"

AdjacentToolResults(messages) ==
    \E i \in 1..(Len(messages) - 1) :
        IsToolResultMessage(messages[i]) /\ IsToolResultMessage(messages[i + 1])

\* C39: in the messages given to Anthropic, after merging and hoisting, no two
\* adjacent messages are both user-role messages made of tool_result blocks
C39_NoAdjacentToolResults == Hoisted => ~AdjacentToolResults(cvMessages)

\* a non-empty system or developer message stands directly between two tool
\* messages in the list that is left once the empty messages are dropped
SystemBetweenTools ==
    \E i \in 1..(Len(KeptInput) - 2) :
        /\ KeptInput[i].role = "tool"
        /\ KeptInput[i + 1].role \in {"system", "developer"}
        /\ KeptInput[i + 2].role = "tool"

\* what the code does: the merge runs on the list that still holds the system
\* and developer messages, so before hoisting no two tool messages are
\* adjacent; two tool_result messages stay apart after hoisting unless only
\* system or developer messages stood between them
C39_AdjacentOnlyAcrossSystem ==
    /\ Converted => ~AdjacentToolResults(cvTransformed)
    /\ (Hoisted /\ AdjacentToolResults(cvMessages)) =>
           \E i, j \in 1..Len(KeptInput) :
               /\ i + 1 < j
               /\ KeptInput[i].role = "tool"
               /\ KeptInput[j].role = "tool"
               /\ \A k \in (i + 1)..(j - 1) : KeptInput[k].role \in {"system", "developer"}

\* tool a, system, tool b: two tool_result messages side by side
C39_SplitBySystem ==
    /\ Hoisted
    /\ SystemBetweenTools
    /\ AdjacentToolResults(cvMessages)

\* tool a, an empty user message, tool b: one merged message
C39_MergedAcrossDropped ==
    /\ Hoisted
    /\ \E i \in 1..(Len(cvIn) - 2) :
           /\ cvIn[i].role = "tool"
           /\ cvIn[i + 1].role \in {"user", "assistant"}
           /\ transformOne(cvIn[i + 1]) = Skip
           /\ cvIn[i + 2].role = "tool"
    /\ ~AdjacentToolResults(cvMessages)


\* ---- C40: the upstream stream is closed on every path of the handler ----

\* C40: when the handler has returned, a stream that ProcessStreamingRequest
\* opened has been closed.  Nothing runs for the request after the return, so
\* a stream open at the return is never closed
C40_ClosedWhenReturned == (hPc = "returned") => (upstream # "open")

\* after the return the stream stays as the handler left it
C40_NothingClosesAfterReturn == [][(hPc = "returned") => (upstream' = upstream)]_vars

\* what the code does: once the range loop has been entered the stream is
\* closed at the return, whatever ends the loop; it is left open exactly when
\* NewSSEWriter fails, where the iterator and its deferred Close never run
C40_OpenOnlyWithoutWriter ==
    /\ (hPc = "returned" /\ upstream = "open") => (outcome = "json_error" /\ frames = <<>>)
    /\ (hPc = "returned" /\ outcome \in {"cancelled", "error_frame", "write_failed", "completed"})
           => (upstream # "open")
    /\ (hPc = "marker") => (upstream = "closed")

\* the response sink has no flush support: the handler has returned a JSON
\* error and the stream it opened is still open
C40_StreamLeftOpen ==
    /\ hPc = "returned"
    /\ outcome = "json_error"
    /\ upstream = "open"


\* ==== specifications ====
StreamInit == StreamIdle /\ InjIdle /\ RtIdle /\ PipeIdle /\ TkIdle /\ FsIdle /\ RsIdle /\ ChIdle /\ RpIdle /\ CvIdle /\ RcIdle /\ MwIdle /\ CcIdle /\ ApIdle /\ StIdle /\ TrIdle /\ SwIdle /\ GpIdle
SpecStream == StreamInit /\ [][StreamNext]_vars

InjectInit == InjInit /\ StreamIdle /\ RtIdle /\ PipeIdle /\ TkIdle /\ FsIdle /\ RsIdle /\ ChIdle /\ RpIdle /\ CvIdle /\ RcIdle /\ MwIdle /\ CcIdle /\ ApIdle /\ StIdle /\ TrIdle /\ SwIdle /\ GpIdle
SpecInject == InjectInit /\ [][InjNext]_vars

RoundTripInit == RtInit /\ StreamIdle /\ InjIdle /\ PipeIdle /\ TkIdle /\ FsIdle /\ RsIdle /\ ChIdle /\ RpIdle /\ CvIdle /\ RcIdle /\ MwIdle /\ CcIdle /\ ApIdle /\ StIdle /\ TrIdle /\ SwIdle /\ GpIdle
SpecRoundTrip == RoundTripInit /\ [][RtNext]_vars

PipeSpecInit == PipeInit /\ StreamIdle /\ InjIdle /\ RtIdle /\ TkIdle /\ FsIdle /\ RsIdle /\ ChIdle /\ RpIdle /\ CvIdle /\ RcIdle /\ MwIdle /\ CcIdle /\ ApIdle /\ StIdle /\ TrIdle /\ SwIdle /\ GpIdle
SpecPipe == PipeSpecInit /\ [][PipeNext]_vars /\ PipeFairness

TokenInit == TkInit /\ StreamIdle /\ InjIdle /\ RtIdle /\ PipeIdle /\ FsIdle /\ RsIdle /\ ChIdle /\ RpIdle /\ CvIdle /\ RcIdle /\ MwIdle /\ CcIdle /\ ApIdle /\ StIdle /\ TrIdle /\ SwIdle /\ GpIdle
SpecToken == TokenInit /\ [][TkNext]_vars

FileInit == FsInit /\ StreamIdle /\ InjIdle /\ RtIdle /\ PipeIdle /\ TkIdle /\ RsIdle /\ ChIdle /\ RpIdle /\ CvIdle /\ RcIdle /\ MwIdle /\ CcIdle /\ ApIdle /\ StIdle /\ TrIdle /\ SwIdle /\ GpIdle
SpecFile == FileInit /\ [][FsNext]_vars

RefreshInit == NewTokenSource /\ StreamIdle /\ InjIdle /\ RtIdle /\ PipeIdle /\ TkIdle /\ FsIdle /\ ChIdle /\ RpIdle /\ CvIdle /\ RcIdle /\ MwIdle /\ CcIdle /\ ApIdle /\ StIdle /\ TrIdle /\ SwIdle /\ GpIdle
SpecRefresh == RefreshInit /\ [][RsNext]_vars

ChainInit == ChInit /\ StreamIdle /\ InjIdle /\ RtIdle /\ PipeIdle /\ TkIdle /\ FsIdle /\ RsIdle /\ RpIdle /\ CvIdle /\ RcIdle /\ MwIdle /\ CcIdle /\ ApIdle /\ StIdle /\ TrIdle /\ SwIdle /\ GpIdle
SpecChain == ChainInit /\ [][ChNext]_vars

ReverseProxyInit == RpInit /\ StreamIdle /\ InjIdle /\ RtIdle /\ PipeIdle /\ TkIdle /\ FsIdle /\ RsIdle /\ ChIdle /\ CvIdle /\ RcIdle /\ MwIdle /\ CcIdle /\ ApIdle /\ StIdle /\ TrIdle /\ SwIdle /\ GpIdle
SpecReverseProxy == ReverseProxyInit /\ [][RpNext]_vars

ConversionInit == CvInit /\ StreamIdle /\ InjIdle /\ RtIdle /\ PipeIdle /\ TkIdle /\ FsIdle /\ RsIdle /\ ChIdle /\ RpIdle /\ RcIdle /\ MwIdle /\ CcIdle /\ ApIdle /\ StIdle /\ TrIdle /\ SwIdle /\ GpIdle
SpecConversion == ConversionInit /\ [][CvNext]_vars

RecoveryInit == RcInit /\ StreamIdle /\ InjIdle /\ RtIdle /\ PipeIdle /\ TkIdle /\ FsIdle /\ RsIdle /\ ChIdle /\ RpIdle /\ CvIdle /\ MwIdle /\ CcIdle /\ ApIdle /\ StIdle /\ TrIdle /\ SwIdle /\ GpIdle
SpecRecovery == RecoveryInit /\ [][RcNext]_vars

MiddlewareInit == MwInit /\ StreamIdle /\ InjIdle /\ RtIdle /\ PipeIdle /\ TkIdle /\ FsIdle /\ RsIdle /\ ChIdle /\ RpIdle /\ CvIdle /\ RcIdle /\ CcIdle /\ ApIdle /\ StIdle /\ TrIdle /\ SwIdle /\ GpIdle
SpecMiddleware == MiddlewareInit /\ [][MwNext]_vars

ChatCompletionsInit == CcInit /\ StreamIdle /\ InjIdle /\ RtIdle /\ PipeIdle /\ TkIdle /\ FsIdle /\ RsIdle /\ ChIdle /\ RpIdle /\ CvIdle /\ RcIdle /\ MwIdle /\ ApIdle /\ StIdle /\ TrIdle /\ SwIdle /\ GpIdle
SpecChatCompletions == ChatCompletionsInit /\ [][CcNext]_vars

AppNewInit == ApInit /\ StreamIdle /\ InjIdle /\ RtIdle /\ PipeIdle /\ TkIdle /\ FsIdle /\ RsIdle /\ ChIdle /\ RpIdle /\ CvIdle /\ RcIdle /\ MwIdle /\ CcIdle /\ StIdle /\ TrIdle /\ SwIdle /\ GpIdle
SpecAppNew == AppNewInit /\ [][ApNext]_vars

StartInit == StInit /\ StreamIdle /\ InjIdle /\ RtIdle /\ PipeIdle /\ TkIdle /\ FsIdle /\ RsIdle /\ ChIdle /\ RpIdle /\ CvIdle /\ RcIdle /\ MwIdle /\ CcIdle /\ ApIdle /\ TrIdle /\ SwIdle /\ GpIdle
SpecStart == StartInit /\ [][StNext]_vars

TranslateInit == TrInit /\ StreamIdle /\ InjIdle /\ RtIdle /\ PipeIdle /\ TkIdle /\ FsIdle /\ RsIdle /\ ChIdle /\ RpIdle /\ CvIdle /\ RcIdle /\ MwIdle /\ CcIdle /\ ApIdle /\ StIdle /\ SwIdle /\ GpIdle
SpecTranslate == TranslateInit /\ [][TrNext]_vars

SseWriterInit == SwInit /\ StreamIdle /\ InjIdle /\ RtIdle /\ PipeIdle /\ TkIdle /\ FsIdle /\ RsIdle /\ ChIdle /\ RpIdle /\ CvIdle /\ RcIdle /\ MwIdle /\ CcIdle /\ ApIdle /\ StIdle /\ TrIdle /\ GpIdle
SpecSseWriter == SseWriterInit /\ [][SwNext]_vars

InjectBodyInit == InjBodyInit /\ StreamIdle /\ RtIdle /\ PipeIdle /\ TkIdle /\ FsIdle /\ RsIdle /\ ChIdle /\ RpIdle /\ CvIdle /\ RcIdle /\ MwIdle /\ CcIdle /\ ApIdle /\ StIdle /\ TrIdle /\ SwIdle /\ GpIdle
SpecInjectBody == InjectBodyInit /\ [][InjBodyNext]_vars

GenerationInit == GpInit /\ StreamIdle /\ InjIdle /\ RtIdle /\ PipeIdle /\ TkIdle /\ FsIdle /\ RsIdle /\ ChIdle /\ RpIdle /\ CvIdle /\ RcIdle /\ MwIdle /\ CcIdle /\ ApIdle /\ StIdle /\ TrIdle /\ SwIdle
SpecGeneration == GenerationInit /\ [][GpNext]_vars

SpecInjectTwice == InjectInit /\ [][InjTwiceNext]_vars

====
